---- MODULE Spec2Model ----
(***************************************************************************)
(* roltdb: a single-file, copy-on-write key/value store.  The model holds  *)
(* the file (its pages), the open store (Idb: writer flag and free list)   *)
(* and the transaction handles with their root bucket, and one action per  *)
(* public operation: DB::open, DB::tx, Bucket::put, Bucket::get,           *)
(* ITransaction::commit, ITransaction::rollback, Drop for Transaction,     *)
(* plus the environment's steps (a process crash, dropping the DB).        *)
(* Keys and values are byte strings of length one, written as integers;   *)
(* 0 stands for the empty byte string.                                     *)
(***************************************************************************)
EXTENDS Integers, Sequences, FiniteSets, TLC

VARIABLES file, dbOpen, has_write, free_list, tx, alive, nTx, nFault, ret

vars == <<file, dbOpen, has_write, free_list, tx, alive, nTx, nFault, ret>>

-----------------------------------------------------------------------------
(* Bounds of the model *)

\* transaction handles created over one behaviour
MaxTx == 2
\* commits the environment fails or cuts short (an I/O error, a crash during
\* the commit) over one behaviour
MaxFaults == 2
\* pages the file and its mapping hold (DBBuilder::num_pages)
MaxPages == 7
\* keys are 1..MaxKey
MaxKey == 2
\* values are 1..MaxVal
MaxVal == 2
MaxName == 1
MaxChildKey == 1
\* transaction handles beyond MaxTx that a behaviour of commits and
\* rollbacks alone creates
MaxMore == 1

Keys == 1..MaxKey
Vals == 1..MaxVal
Names == 1..MaxName
ChildKeys == 1..MaxChildKey
Handles == 1..(MaxTx + MaxMore)
PageIds == 0..(MaxPages - 1)

-----------------------------------------------------------------------------
(* Program constants *)

BRANCH_PAGE == 1
LEAF_PAGE == 2
META_PAGE == 3
FREE_LIST_PAGE == 4
MAGIC == 15791167
VERSION == 1
PageSize == 4096
PAGE_HEADER_SIZE == 16
PageIdSize == 8
FLAG == 1
BucketBase == 16

-----------------------------------------------------------------------------
(* Pages and metas *)

IBucketNew == [root |-> 0, sequence |-> 0]

\* Meta::sum64: the hash of every field before check_sum, taken as
\* collision-free
sum64(m) ==
    <<m.page_id, m.magic_number, m.version, m.page_size, m.free_list,
      m.tx_id, m.root.root, m.root.sequence, m.num_pages>>

\* the meta view of a zero-filled page body
ZeroMeta ==
    [page_id |-> 0, magic_number |-> 0, version |-> 0, page_size |-> 0,
     free_list |-> 0, tx_id |-> 0, root |-> IBucketNew, num_pages |-> 0,
     check_sum |-> <<>>]

\* a zero-filled page
ZeroPage ==
    [id |-> 0, page_type |-> 0, count |-> 0, overflow |-> 0,
     meta |-> ZeroMeta, list |-> <<>>, elems |-> <<>>, torn |-> FALSE]

validate(m) == m.magic_number = MAGIC /\ m.check_sum = sum64(m)

MetaInit(m, page_id) ==
    LET m1 == [m EXCEPT !.page_id = page_id, !.magic_number = MAGIC,
                        !.version = VERSION,
                        !.root = [root |-> 3, sequence |-> 0]]
    IN  [m1 EXCEPT !.check_sum = sum64(m1)]

init_file ==
    [i \in PageIds |->
        IF i < 2
        THEN [ZeroPage EXCEPT !.page_type = META_PAGE, !.id = i,
                 !.meta = MetaInit([ZeroMeta EXCEPT !.free_list = 2,
                                                    !.num_pages = 4], i)]
        ELSE IF i = 2
        THEN [ZeroPage EXCEPT !.id = 2, !.page_type = FREE_LIST_PAGE]
        ELSE IF i = 3
        THEN [ZeroPage EXCEPT !.id = 3, !.page_type = LEAF_PAGE]
        ELSE ZeroPage]

\* Page::meta: the typed view fails on a page of another kind
PageMetaOk(p) == p.page_type = META_PAGE

\* Idb::meta; "panic" when neither slot holds a valid meta, "err" when a
\* slot is not a meta page
IdbMeta(f) ==
    IF ~PageMetaOk(f[0]) \/ ~PageMetaOk(f[1])
    THEN [ok |-> "err", meta |-> ZeroMeta]
    ELSE LET meta0 == f[0].meta
             meta1 == f[1].meta
         IN  CASE validate(meta0) /\ validate(meta1) ->
                    [ok |-> "ok",
                     meta |-> IF meta0.tx_id >= meta1.tx_id THEN meta0 ELSE meta1]
               [] validate(meta0) /\ ~validate(meta1) -> [ok |-> "ok", meta |-> meta0]
               [] ~validate(meta0) /\ validate(meta1) -> [ok |-> "ok", meta |-> meta1]
               [] OTHER -> [ok |-> "panic", meta |-> ZeroMeta]

-----------------------------------------------------------------------------
(* Sequences helpers *)

RECURSIVE SetToSortedSeq(_)
SetToSortedSeq(S) ==
    IF S = {} THEN <<>>
    ELSE LET m == CHOOSE x \in S : \A y \in S : x <= y
         IN  <<m>> \o SetToSortedSeq(S \ {m})

RECURSIVE InsertSorted(_, _)
InsertSorted(s, x) ==
    IF s = <<>> THEN <<x>>
    ELSE IF x <= Head(s) THEN <<x>> \o s
    ELSE <<Head(s)>> \o InsertSorted(Tail(s), x)

RECURSIVE SortIds(_)
SortIds(s) ==
    IF s = <<>> THEN <<>> ELSE InsertSorted(SortIds(Tail(s)), Head(s))

SeqRange(s) == {s[i] : i \in 1..Len(s)}

-----------------------------------------------------------------------------
(* FreeList (free_list.rs) *)

\* pending is a map from a key to a list of page ids (a function whose
\* domain is the set of keys present)
FreeListNew == [pending |-> <<>>, free_pages |-> {}, cache |-> {}]

FreeListInit(fl, ids) ==
    [fl EXCEPT !.free_pages = @ \cup SeqRange(ids), !.cache = @ \cup SeqRange(ids)]

\* the scan of FreeList::allocate over the ascending free ids
RECURSIVE AllocScan(_, _, _, _)
AllocScan(ids, len, start, prev) ==
    IF ids = <<>> THEN -1
    ELSE LET id == Head(ids)
             st == IF prev = 0 \/ id - prev # 1 THEN id ELSE start
         IN  IF id - st + 1 >= len THEN st
             ELSE AllocScan(Tail(ids), len, st, id)

\* FreeList::allocate: [id |-> first page of the run or -1, fl |-> the list after]
FreeListAllocate(fl, len) ==
    IF fl.free_pages = {} \/ Cardinality(fl.free_pages) < len
    THEN [id |-> -1, fl |-> fl]
    ELSE LET st == AllocScan(SetToSortedSeq(fl.free_pages), len, 0, 0)
         IN  IF st = -1 THEN [id |-> -1, fl |-> fl]
             ELSE [id |-> st,
                   fl |-> [fl EXCEPT !.free_pages = @ \ (st..(st + len - 1)),
                                     !.cache = @ \ (st..(st + len - 1))]]

PendingGet(fl, k) == IF k \in DOMAIN fl.pending THEN fl.pending[k] ELSE <<>>

PendingPut(pending, k, v) ==
    [x \in (DOMAIN pending) \cup {k} |-> IF x = k THEN v ELSE pending[x]]

PendingRemove(pending, k) == [x \in (DOMAIN pending) \ {k} |-> pending[x]]

\* the loop of FreeList::free over p.id ..= p.id + p.overflow; it stops with
\* an error at the first id that is in free_pages, keeping what it pushed
RECURSIVE FreeLoop(_, _, _, _)
FreeLoop(fl, key, id, last) ==
    IF id > last THEN [ok |-> TRUE, fl |-> fl]
    ELSE IF id \in fl.free_pages THEN [ok |-> FALSE, fl |-> fl]
    ELSE FreeLoop([fl EXCEPT
                      !.pending = PendingPut(@, key, Append(@[key], id)),
                      !.cache = @ \cup {id}],
                  key, id + 1, last)

\* FreeList::free(tx_id, p)
FreeListFree(fl, key, p) ==
    FreeLoop([fl EXCEPT !.pending = PendingPut(@, key, PendingGet(fl, key))],
             key, p.id, p.id + p.overflow)

\* FreeList::rollback(tx_id)
FreeListRollback(fl, tx_id) ==
    [fl EXCEPT !.cache = @ \ SeqRange(PendingGet(fl, tx_id)),
               !.pending = PendingRemove(@, tx_id)]

AllPending(fl) == UNION {SeqRange(fl.pending[k]) : k \in DOMAIN fl.pending}

\* Page::free_list: the typed view of a free-list page
PageFreeListOk(p) == p.page_type = FREE_LIST_PAGE

\* FreeList::read: [ok, fl]; the count of the model never reaches the
\* u16::MAX sentinel
FreeListRead(fl, p) ==
    IF p.count = 0 THEN [ok |-> TRUE, fl |-> [fl EXCEPT !.free_pages = {}]]
    ELSE IF ~PageFreeListOk(p) THEN [ok |-> FALSE, fl |-> fl]
    ELSE [ok |-> TRUE, fl |-> [fl EXCEPT !.free_pages = @ \cup SeqRange(p.list)]]

\* FreeList::reindex
FreeListReindex(fl) == [fl EXCEPT !.cache = fl.free_pages \cup AllPending(fl)]

\* FreeList::reload that keeps the pending ids in free_pages
FreeListReloadKeepPending(fl, p) ==
    [ok |-> FreeListRead(fl, p).ok,
     fl |-> IF FreeListRead(fl, p).ok THEN FreeListReindex(FreeListRead(fl, p).fl) ELSE fl]

\* FreeList::reload: read(p).unwrap(), drop the pending ids from free_pages, reindex
FreeListReload(fl, p) ==
    LET r == FreeListRead(fl, p)
    IN  IF ~r.ok THEN [ok |-> FALSE, fl |-> fl]
        ELSE [ok |-> TRUE,
              fl |-> FreeListReindex(
                        [r.fl EXCEPT !.free_pages = @ \ AllPending(r.fl)])]

RECURSIVE PendingCount(_, _)
PendingCount(fl, ks) ==
    IF ks = {} THEN 0
    ELSE LET k == CHOOSE x \in ks : TRUE
         IN  Len(fl.pending[k]) + PendingCount(fl, ks \ {k})

\* FreeList::count
FreeListCount(fl) == Cardinality(fl.free_pages) + PendingCount(fl, DOMAIN fl.pending)

RECURSIVE PendingConcat(_, _)
PendingConcat(fl, ks) ==
    IF ks = <<>> THEN <<>>
    ELSE fl.pending[Head(ks)] \o PendingConcat(fl, Tail(ks))

\* FreeList::page_ids: the free ids and every pending list, sorted
page_ids(fl) ==
    SortIds(SetToSortedSeq(fl.free_pages)
            \o PendingConcat(fl, SetToSortedSeq(DOMAIN fl.pending)))

\* FreeList::size
FreeListSize(fl) ==
    LET c == FreeListCount(fl)
        n == IF c > 4095 THEN c + 1 ELSE c
    IN  PAGE_HEADER_SIZE + PageIdSize * n

\* FreeList::write into page p
FreeListWrite(fl, p) ==
    LET count == FreeListCount(fl)
    IN  IF count = 0
        THEN [p EXCEPT !.page_type = FREE_LIST_PAGE, !.count = 0]
        ELSE [p EXCEPT !.page_type = FREE_LIST_PAGE, !.count = count,
                       !.list = page_ids(fl)]

-----------------------------------------------------------------------------
(* Nodes, buckets and transactions *)

\* Option::None of a key or a value, and the mark of a panic (an unwrap of
\* an Err)
None == -1
Panic == -2

\* Node::new: page_id is 0 and no code path assigns it afterwards
NoNode == [some |-> FALSE, page_id |-> 0, inodes |-> <<>>, unbalanced |-> FALSE]
NodeNew == [some |-> TRUE, page_id |-> 0, inodes |-> <<>>, unbalanced |-> FALSE]

NodeKeys(n) == [i \in 1..Len(n.inodes) |-> n.inodes[i].key]

\* slice::binary_search_by on keys in ascending order: [found, index], index
\* from 0; the insertion point when the key is absent
BinarySearch(keys, target) ==
    [found |-> \E i \in 1..Len(keys) : keys[i] = target,
     index |-> Cardinality({i \in 1..Len(keys) : keys[i] < target})]

InsertAt(s, i, x) == SubSeq(s, 1, i) \o <<x>> \o SubSeq(s, i + 1, Len(s))

\* Node::put that stores the key as the value of a new inode too
NodePutKeyAsValue(n, old, key, value) ==
    [n EXCEPT !.inodes = InsertAt(@, BinarySearch(NodeKeys(n), old).index,
                                  [key |-> key, value |-> key, flags |-> 0])]

\* Node::put that pushes a new inode at the end of the node
NodePutAtEnd(n, old, key, value) ==
    IF \E i \in 1..Len(n.inodes) : n.inodes[i].key = old
    THEN n
    ELSE [n EXCEPT !.inodes = Append(@, [key |-> key, value |-> value, flags |-> 0])]

\* Node::put(old, key, value, ..): a new inode at the insertion point, or
\* the inode found under old rewritten with l.key = key, l.value = key
NodePut(n, old, key, value) ==
    LET r == BinarySearch(NodeKeys(n), old)
    IN  IF ~r.found
        THEN [n EXCEPT !.inodes =
                 InsertAt(@, r.index, [key |-> key, value |-> value, flags |-> 0])]
        ELSE [n EXCEPT !.inodes[r.index + 1] =
                 [@ EXCEPT !.key = key, !.value = key]]

RemoveAt(s, i) == SubSeq(s, 1, i - 1) \o SubSeq(s, i + 1, Len(s))

\* Node::remove(key): the inode found under key is taken out; the
\* assignment of unbalanced is commented out in the source
NodeRemove(n, key) ==
    LET r == BinarySearch(NodeKeys(n), key)
    IN  IF r.found THEN [n EXCEPT !.inodes = RemoveAt(@, r.index + 1)] ELSE n

\* Bucket::new with the header ib: no root node, no cached node, no inline
\* page, no cached sub-bucket. page tells that the bucket reads an inline
\* page out of the bytes of its entry in the parent, junk that those bytes
\* were freed since
BucketNew(ib) ==
    [bucket |-> ib, root |-> NoNode, nodes |-> {}, page |-> FALSE, junk |-> FALSE,
     buckets |-> {}]

\* the page Node::write makes of a leaf node without inodes, which is the
\* inline page in the bytes of a new sub-bucket
InlinePage == [ZeroPage EXCEPT !.page_type = LEAF_PAGE]

\* KVPair::null
NullPair == [key |-> None, value |-> None, flags |-> 0]

\* no Cursor on a bucket. The stack of a Cursor is its last frame
\* [pn, index] on the frames up of the branches above it; pair is the pair
\* its last call returned
NoCursor ==
    [on |-> FALSE,
     pn |-> [kind |-> "err", err |-> "StackEmpty", page |-> ZeroPage],
     index |-> 0, up |-> <<>>, pair |-> NullPair]

\* a transaction handle that was never created
NoTx ==
    [writable |-> FALSE, meta |-> ZeroMeta, pages |-> {}, b |-> BucketNew(IBucketNew),
     rolled |-> FALSE, meta0 |-> ZeroMeta, fl0 |-> FreeListNew,
     snap |-> <<>>, cur |-> NoCursor]

\* Bucket::root_id
root_id(t) == t.b.bucket.root

\* ITransaction::page: the dirty page when there is one, else the mapped page
TxPage(t, f, id) ==
    IF \E p \in t.pages : p.id = id
    THEN CHOOSE p \in t.pages : p.id = id
    ELSE f[id]

\* the inline page a bucket reads: the page written into its entry, or, once
\* the bytes of the entry were freed, whatever that memory holds; junk is
\* taken to be no page of a known kind
InlinePageOf(b) == IF b.junk THEN ZeroPage ELSE InlinePage

\* Bucket::page_node: kind "node" (the cached root node), "page" or "err"
page_node(t, f, id) ==
    IF root_id(t) = 0
    THEN IF id # 0 THEN [kind |-> "err", err |-> "InlineNonZero", page |-> ZeroPage]
         ELSE IF t.b.root.some THEN [kind |-> "node", err |-> "", page |-> ZeroPage]
         ELSE IF t.b.page THEN [kind |-> "page", err |-> "", page |-> InlinePageOf(t.b)]
         ELSE [kind |-> "err", err |-> "PageEmpty", page |-> ZeroPage]
    ELSE IF id \in t.b.nodes THEN [kind |-> "node", err |-> "", page |-> ZeroPage]
    ELSE IF id \notin PageIds THEN [kind |-> "err", err |-> "Panic", page |-> ZeroPage]
    ELSE [kind |-> "page", err |-> "", page |-> TxPage(t, f, id)]

\* PageNode::is_leaf; every node of the cache is created with NodeType::Leaf
ElemIsLeaf(pn) == pn.kind = "node" \/ pn.page.page_type = LEAF_PAGE

\* PageNode::count
ElemCount(t, pn) == IF pn.kind = "node" THEN Len(t.b.root.inodes) ELSE pn.page.count

\* the keys of the elements of a branch or leaf page, in order
PageKeys(p) == [i \in 1..Len(p.elems) |-> p.elems[i].key]

\* the keys of the frame in the order the binary searches see them; no page
\* that a commit wrote holds an element (no code path writes a node into a
\* page). The key that search_leaf reads from a leaf page is LeafPageKey of
\* the stored key, which leaves the insertion point where it is
ElemKeys(t, pn) == IF pn.kind = "node" THEN NodeKeys(t.b.root) ELSE PageKeys(pn.page)

\* Cursor::search_page: the index of the child to descend into, the hit of
\* the binary search or else the insertion point minus one, never below 0
BranchIndex(keys, target) ==
    IF BinarySearch(keys, target).found \/ BinarySearch(keys, target).index = 0
    THEN BinarySearch(keys, target).index
    ELSE BinarySearch(keys, target).index - 1

\* Cursor::search once page_node has returned pn, with the frames up of the
\* branches above it on the stack: the cursor [pn, index] of the last frame
\* and the frames under it. A leaf is searched by search_leaf; a page that is
\* neither a leaf nor a branch fails in Page::branch_elements; a branch
\* without elements panics at branches[index]
RECURSIVE SearchFrom(_, _, _, _, _)
SearchFrom(t, f, pn, target, up) ==
    IF pn.kind = "err"
    THEN [ok |-> FALSE, err |-> pn.err, pn |-> pn, index |-> 0, up |-> up]
    ELSE IF ElemIsLeaf(pn)
    THEN [ok |-> TRUE, err |-> "", pn |-> pn,
          index |-> BinarySearch(ElemKeys(t, pn), target).index, up |-> up]
    ELSE IF pn.page.page_type # BRANCH_PAGE
    THEN [ok |-> FALSE, err |-> "InvalidPageType", pn |-> pn, index |-> 0, up |-> up]
    ELSE IF pn.page.count = 0
    THEN [ok |-> FALSE, err |-> "Panic", pn |-> pn, index |-> 0, up |-> up]
    ELSE SearchFrom(t, f,
             page_node(t, f, pn.page.elems[BranchIndex(PageKeys(pn.page), target) + 1].id),
             target,
             Append(up, [pn |-> pn,
                         index |-> BranchIndex(PageKeys(pn.page), target)]))

\* Cursor::search from the bucket's root
Search(t, f, target) == SearchFrom(t, f, page_node(t, f, root_id(t)), target, <<>>)

\* LeafPageElement::key of an element with key k: the slice starts at the
\* key and is pos + k_size bytes long, the key followed by the pos bytes
\* after it (the value and what follows it). It compares above k, below
\* every greater key of the same length, and equals no key of that
\* length; the number below None and Panic stands for it
LeafPageKey(k) == 0 - (k + 2)

\* impl From<&ElementRef> for KVPair: flags is always 0
kv_pair(t, c) ==
    IF ElemCount(t, c.pn) = 0 THEN NullPair
    ELSE IF c.pn.kind = "node"
    THEN [key |-> t.b.root.inodes[c.index + 1].key,
          value |-> t.b.root.inodes[c.index + 1].value, flags |-> 0]
    ELSE [key |-> LeafPageKey(c.pn.page.elems[c.index + 1].key),
          value |-> c.pn.page.elems[c.index + 1].value, flags |-> 0]

\* Cursor::seek_to, once search has positioned the cursor at c
SeekToAt(t, c) ==
    IF ~c.ok THEN [ok |-> FALSE, err |-> c.err, c |-> c, pair |-> NullPair]
    ELSE [ok |-> TRUE, err |-> "", c |-> c,
          pair |-> IF c.index >= ElemCount(t, c.pn) THEN NullPair
                   ELSE kv_pair(t, c)]

\* Cursor::seek_to
seek_to(t, f, target) == SeekToAt(t, Search(t, f, target))

\* a frame of the stack that has an element after its index
CanAdvance(t, e) == e.index + 1 < ElemCount(t, e.pn)

\* Cursor::next on the stack of cursor c (the last frame [c.pn, c.index] on
\* the frames c.up): when a frame can advance, the index of the deepest
\* such frame is raised and first_leaf is called while the mutable borrow of
\* the stack is alive, so that the borrow in first_leaf panics; when none
\* can, the null pair is returned
CursorNext(t, c) ==
    IF CanAdvance(t, c) \/ \E i \in 1..Len(c.up) : CanAdvance(t, c.up[i])
    THEN [res |-> "Panic", c |-> c, pair |-> NullPair]
    ELSE [res |-> "Ok", c |-> c, pair |-> NullPair]

\* Cursor::seek, once seek_to has returned s: past the last element of the
\* leaf it calls next to move to the next one
SeekFrom(t, s) ==
    IF ~s.ok THEN s
    ELSE IF s.c.index >= ElemCount(t, s.c.pn)
    THEN IF CursorNext(t, s.c).res = "Panic"
         THEN [s EXCEPT !.ok = FALSE, !.err = "Panic", !.pair = NullPair]
         ELSE [s EXCEPT !.pair = CursorNext(t, s.c).pair]
    ELSE s

\* Cursor::seek
seek(t, f, target) == SeekFrom(t, seek_to(t, f, target))

\* Bucket::get on the pair s that seek returned
GetFrom(s, target) ==
    IF ~s.ok THEN Panic
    ELSE IF s.pair.flags = FLAG \/ s.pair.key # target THEN None
    ELSE s.pair.value

\* Bucket::get: the value, None, or Panic where seek(..).unwrap() panics
BucketGet(t, f, target) == GetFrom(seek(t, f, target), target)

\* Node::read of a leaf page into a new node
NodeRead(p) ==
    [NodeNew EXCEPT !.inodes =
        [i \in 1..Len(p.elems) |->
            [key |-> LeafPageKey(p.elems[i].key), value |-> p.elems[i].value,
             flags |-> 0]]]

\* Cursor::node with Bucket::node: the node on top of the stack, or the
\* root page read into a new node that becomes the bucket's root and is
\* cached under the page's id
CursorNode(t, c) ==
    IF c.pn.kind = "node" THEN t
    ELSE [t EXCEPT !.b.root = NodeRead(c.pn.page),
                   !.b.nodes = @ \cup {c.pn.page.id}]

\* Bucket::put after the cursor has sought the key: Node::put on
\* cursor.node(). Under a branch page Bucket::node makes a new leaf node the
\* root of the bucket and panics in node.read(..).unwrap(), which reads the
\* branch page as a leaf
PutAt(t, s, key, value) ==
    IF ~s.ok THEN [res |-> "Err" \o s.err, t |-> t]
    ELSE IF s.c.up # <<>> THEN [res |-> "Panic", t |-> [t EXCEPT !.b.root = NodeNew]]
    ELSE [res |-> "Ok",
          t |-> [CursorNode(t, s.c) EXCEPT !.b.root = NodePut(@, key, key, value)]]

\* Bucket::put without the test of the key
BucketPutAnyKey(t, f, key, value) ==
    IF ~t.writable THEN [res |-> "ErrNotWritable", t |-> t]
    ELSE PutAt(t, seek(t, f, key), key, value)

\* Bucket::put: [res, t]
BucketPut(t, f, key, value) ==
    IF ~t.writable THEN [res |-> "ErrNotWritable", t |-> t]
    ELSE IF key = 0 THEN [res |-> "ErrEmptyKey", t |-> t]
    ELSE PutAt(t, seek(t, f, key), key, value)

-----------------------------------------------------------------------------
(* Sub-buckets (bucket.rs) *)

\* Keys and values are numbers below BucketBase. The bytes Bucket::as_bytes
\* makes of a bucket, its header followed by its root node written as a
\* page, are the number BucketBase + the header's root; as_bytes is only
\* called on the bucket create_bucket has just made, whose node is empty
as_bytes(b) == BucketBase + b.bucket.root

\* the header roots a read of bytes that hold no bucket may come up with
GarbageRoots == {0, 1}

\* Bucket::open_bucket(bytes): the header is read out of the bytes and,
\* when its root is 0, the inline page is what follows it. Bytes that hold
\* a plain value or a key are read as a header all the same, beyond their
\* end: the root is then any number g, and for root 0 the slice of the
\* inline page is out of range and panics
open_bucket(bytes, g) ==
    IF bytes >= BucketBase
    THEN [ok |-> TRUE,
          b |-> [BucketNew([root |-> bytes - BucketBase, sequence |-> 0])
                    EXCEPT !.page = (bytes = BucketBase)]]
    ELSE IF g = 0 THEN [ok |-> FALSE, b |-> BucketNew(IBucketNew)]
    ELSE [ok |-> TRUE, b |-> BucketNew([root |-> g, sequence |-> 0])]

\* the sub-bucket cache Bucket.buckets: entries [name, b]
Cached(b, name) == \E c \in b.buckets : c.name = name
ChildOf(b, name) == (CHOOSE c \in b.buckets : c.name = name).b
CachePut(b, name, child) ==
    [b EXCEPT !.buckets = {c \in @ : c.name # name} \cup {[name |-> name, b |-> child]}]

\* Bucket::get_bucket once open_bucket has returned o: the child is cached
GetBucketOpened(t, name, o) ==
    IF ~o.ok THEN [res |-> "Panic", t |-> t]
    ELSE [res |-> "Some", t |-> [t EXCEPT !.b = CachePut(@, name, o.b)]]

\* Bucket::get_bucket once seek_to has returned s; the flags of the entry
\* are not looked at
GetBucketAt(t, s, name, g) ==
    IF ~s.ok \/ s.pair.key # name THEN [res |-> "None", t |-> t]
    ELSE GetBucketOpened(t, name, open_bucket(s.pair.value, g))

\* Bucket::get_bucket: [res, t], res "Some", "None" or "Panic"
get_bucket(t, f, name, g) ==
    IF Cached(t.b, name) THEN [res |-> "Some", t |-> t]
    ELSE GetBucketAt(t, seek_to(t, f, name), name, g)

\* the bucket create_bucket serializes: a new bucket with an empty leaf as
\* its root node
FreshBucket == [BucketNew(IBucketNew) EXCEPT !.root = NodeNew]

\* Bucket::create_bucket after the entry was put: get_bucket returned r
CreateGot(r) ==
    [res |-> CASE r.res = "Some" -> "Ok"
               [] r.res = "None" -> "ErrCannotGetBucket"
               [] OTHER -> "Panic",
     t |-> r.t]

\* Bucket::create_bucket once seek_to has returned s: the entry is put into
\* cursor.node() with Node::put, which stores no flags, and page is cleared
CreateAt(t, f, s, name, g) ==
    IF ~s.ok THEN [res |-> "Err" \o s.err, t |-> t]
    ELSE IF s.pair.key = name THEN [res |-> "ErrBucketExist", t |-> t]
    ELSE CreateGot(get_bucket(
            [CursorNode(t, s.c) EXCEPT
                !.b.root = NodePut(@, name, name, as_bytes(FreshBucket)),
                !.b.page = FALSE],
            f, name, g))

\* Bucket::create_bucket in a writable transaction: [res, t]
create_bucket(t, f, name, g) == CreateAt(t, f, seek_to(t, f, name), name, g)

\* Bucket::create_bucket_if_not_exist once create_bucket has returned r: any
\* error of it is answered with get_bucket
CreateOrGet(r, f, name, g) ==
    IF r.res \in {"Ok", "Panic"} THEN r
    ELSE CreateGot(get_bucket(r.t, f, name, g))

\* Bucket::create_bucket_if_not_exist: [res, t]
create_bucket_if_not_exist(t, f, name, g) ==
    CreateOrGet(create_bucket(t, f, name, g), f, name, g)

\* ITransaction::create_bucket and ITransaction::create_bucket_if_not_exist
\* on the result r of the root bucket's method: a read-only transaction is
\* refused, and the Result of the bucket is unwrapped
TxCreated(t, r) ==
    IF ~t.writable THEN [res |-> "ErrReadOnly", t |-> t]
    ELSE [res |-> IF r.res = "Ok" THEN "Ok" ELSE "Panic", t |-> r.t]

\* the transaction as the sub-bucket name of t sees it: the same
\* transaction, with the sub-bucket as the bucket
ChildTx(t, name) == [t EXCEPT !.b = ChildOf(t.b, name)]

\* Bucket::put on the cached sub-bucket name of t: [res, t]
ChildPutDone(t, name, r) == [res |-> r.res, t |-> [t EXCEPT !.b = CachePut(@, name, r.t.b)]]

ChildPut(t, f, name, key, value) ==
    ChildPutDone(t, name, BucketPut(ChildTx(t, name), f, key, value))

\* A put on the parent that finds the entry of a cached sub-bucket rewrites
\* it: Node::put drops the old value, the bytes the sub-bucket's inline
\* page lies in, and the sub-bucket reads freed memory from then on. j
\* tells whether that memory has changed by the time it is read. r is what
\* the put on t returned
PutFrees(t, r, key, j) ==
    IF /\ r.res = "Ok"
       /\ Cached(t.b, key) /\ ChildOf(t.b, key).page
       /\ \E i \in 1..Len(t.b.root.inodes) : t.b.root.inodes[i].key = key
    THEN [r EXCEPT !.t.b = CachePut(@, key, [ChildOf(t.b, key) EXCEPT !.junk = @ \/ j])]
    ELSE r

-----------------------------------------------------------------------------
(* Commit and rollback (transaction.rs) *)

CeilDiv(a, b) == IF a % b = 0 THEN a \div b ELSE a \div b + 1

\* pages of a dirty-page map in ascending id order
RECURSIVE SortPages(_)
SortPages(ps) ==
    IF ps = {} THEN <<>>
    ELSE LET m == CHOOSE p \in ps : \A q \in ps : p.id <= q.id
         IN  <<m>> \o SortPages(ps \ {m})

\* DB::write_at of one whole page
WritePage(f, p) == [f EXCEPT ![p.id] = [p EXCEPT !.torn = FALSE]]

RECURSIVE WritePrefix(_, _, _)
WritePrefix(f, ps, k) ==
    IF k = 0 \/ ps = <<>> THEN f
    ELSE WritePrefix(WritePage(f, Head(ps)), Tail(ps), k - 1)

\* the first n words of a page body whose leading words are s
Words(s, n) == [i \in 1..n |-> IF i <= Len(s) THEN s[i] ELSE 0]

\* a page write cut after the header: the body still holds the old bytes
TornPage(old, new) ==
    [new EXCEPT !.list = Words(old.list, new.count), !.meta = old.meta, !.torn = TRUE]

\* the fields of a meta page that differ between two metas, in the order of
\* their bytes (the page header's id, then #[repr(C)] Meta)
MetaFields == <<"id", "page_id", "free_list", "tx_id", "root", "num_pages", "check_sum">>

\* a meta-page write cut after the first k fields
TornMeta(old, new, k) ==
    LET pick(i, a, b) == IF i <= k THEN a ELSE b
    IN  [old EXCEPT
            !.id = pick(1, new.id, old.id),
            !.meta = [old.meta EXCEPT
                !.page_id = pick(2, new.meta.page_id, @),
                !.free_list = pick(3, new.meta.free_list, @),
                !.tx_id = pick(4, new.meta.tx_id, @),
                !.root = pick(5, new.meta.root, @),
                !.num_pages = pick(6, new.meta.num_pages, @),
                !.check_sum = pick(7, new.meta.check_sum, @)],
            !.torn = (k > 0 /\ k < Len(MetaFields))]

\* Meta::write: the meta page image, its header id is tx_id % 2
MetaWrite(m) ==
    LET m1 == [m EXCEPT !.check_sum = sum64(m)]
    IN  [ZeroPage EXCEPT !.id = m.tx_id % 2, !.meta = m1, !.count = 0,
                         !.page_type = META_PAGE]

\* the page write_meta writes to: offset = meta.page_id * page_size
MetaSlot(m) == m.page_id

\* ITransaction::allocate once the free list has answered with a: the
\* page is a's run or the end of the file; the buffer is one page, overflow
\* stays 0. The RawPtr it returns holds the address of a local of allocate;
\* the model takes the caller's read through it to yield the page
AllocateAt(t, a, num, page_id) ==
    [t |-> [t EXCEPT !.meta.num_pages = IF a.id = -1 THEN @ + num ELSE @,
                     !.pages = {q \in @ : q.id # page_id}
                               \cup {[ZeroPage EXCEPT !.id = page_id]}],
     fl |-> a.fl, page_id |-> page_id]

\* an allocation that hands out the page of the bucket's root
AllocateInPlace(t, a, num) == AllocateAt(t, a, num, t.meta.root.root)

AllocateFrom(t, a, num) ==
    AllocateAt(t, a, num, IF a.id = -1 THEN t.meta.num_pages ELSE a.id)

\* ITransaction::allocate(data_size): [t, fl, page_id]
TxAllocate(t, fl, data_size) ==
    AllocateFrom(t, FreeListAllocate(fl, CeilDiv(data_size, PageSize)),
                 CeilDiv(data_size, PageSize))

\* ITransaction::rollback after free_list.rollback, with db.meta() = m
RollbackReloaded(fl1, r) ==
    IF r.ok THEN [res |-> "Ok", fl |-> r.fl] ELSE [res |-> "Panic", fl |-> fl1]

RollbackAt(f, fl1, m) ==
    IF m.ok # "ok" THEN [res |-> "Panic", fl |-> fl1]
    ELSE RollbackReloaded(fl1, FreeListReload(fl1, f[m.meta.free_list]))

\* ITransaction::rollback: [res, fl]
TxRollback(t, f, fl) ==
    IF ~t.writable THEN [res |-> "Ok", fl |-> fl]
    ELSE RollbackAt(f, FreeListRollback(fl, t.meta.tx_id), IdbMeta(f))

\* Bucket::rebalance and Bucket::spill of the root bucket. No node is ever
\* marked unbalanced, so rebalance does nothing. Node::spill borrows
\* self.children mutably and, with that borrow alive, borrows it again to
\* clear it: the RefCell panics. A bucket with a root node therefore panics
\* in spill before anything is written; one without a node is left alone
BucketSpill(b) == [res |-> IF b.root.some THEN "Panic" ELSE "Ok", b |-> b]

\* what the environment does to a commit: it lets it run ("ok"), fails a
\* write ("io_pages", "io_meta"), or the process dies during write_pages
\* with the next page cut ("crash_pages"), between write_pages and
\* write_meta ("crash_mid"), or k fields into the meta page ("crash_meta")
Outcomes ==
    {[kind |-> x, k |-> 0] : x \in {"ok", "io_pages", "io_meta", "crash_pages", "crash_mid"}}
    \cup {[kind |-> "crash_meta", k |-> k] : k \in 1..(Len(MetaFields) - 1)}

\* the outcome of a commit that the environment lets run to its end
OkOutcome == [kind |-> "ok", k |-> 0]

\* the result of a commit: what it returned (or "crash"), the handle, the
\* free list and the file after it, and the meta page written (-1: none)
CommitResult(res, t, fl, f, slot) ==
    [res |-> res, t |-> t, fl |-> fl, f |-> f, slot |-> slot]

\* a failed write: commit rolls back (rb) and returns the write's error
CommitFailed(t, f, rb) ==
    CommitResult(IF rb.res = "Ok" THEN "ErrIo" ELSE rb.res, t, rb.fl, f, -1)

\* write_meta of meta t.meta with page image img into page slot of f1,
\* after write_pages succeeded
CommitMeta(t, f1, fl, o, slot, img) ==
    CASE o.kind = "io_meta" -> CommitFailed(t, f1, TxRollback(t, f1, fl))
      [] o.kind = "crash_meta" ->
           CommitResult("crash", t, fl, [f1 EXCEPT ![slot] = TornMeta(@, img, o.k)], slot)
      [] OTHER -> CommitResult("Ok", t, fl, [f1 EXCEPT ![slot] = img], slot)

\* a commit that writes the meta slot before the dirty pages: a crash in
\* write_pages leaves the new meta over pages that were never written
CommitWriteMetaFirst(t, f, fl, o, dirty) ==
    CASE o.kind = "io_pages" -> CommitFailed(t, f, TxRollback(t, f, fl))
      [] o.kind \in {"crash_pages", "crash_mid"} ->
           CommitResult("crash", t, fl,
                        [f EXCEPT ![MetaSlot(t.meta)] =
                            MetaWrite([t.meta EXCEPT !.check_sum = sum64(t.meta)])],
                        MetaSlot(t.meta))
      [] OTHER ->
           CommitMeta([t EXCEPT !.meta.check_sum = sum64(t.meta)],
                      WritePrefix(f, dirty, Len(dirty)), fl, o,
                      MetaSlot(t.meta), MetaWrite(t.meta))

\* write_pages of the sorted dirty pages, then write_meta; the map of dirty
\* pages has been drained (t.pages is empty)
CommitWrite(t, f, fl, o, dirty) ==
    CASE o.kind = "io_pages" -> CommitFailed(t, f, TxRollback(t, f, fl))
      [] o.kind = "crash_pages" ->
           CommitResult("crash", t, fl,
                        [f EXCEPT ![dirty[1].id] = TornPage(@, dirty[1])], -1)
      [] o.kind = "crash_mid" ->
           CommitResult("crash", t, fl, WritePrefix(f, dirty, Len(dirty)), -1)
      [] OTHER ->
           CommitMeta([t EXCEPT !.meta.check_sum = sum64(t.meta)],
                      WritePrefix(f, dirty, Len(dirty)), fl, o,
                      MetaSlot(t.meta), MetaWrite(t.meta))

\* the free list written into the page a that allocate returned, and
\* meta.free_list = page.id
CommitAllocated(f, a, o, page) ==
    CommitWrite([a.t EXCEPT !.pages = {}, !.meta.free_list = a.page_id],
                f, a.fl, o,
                SortPages({q \in a.t.pages : q.id # a.page_id} \cup {page}))

CommitAllocate(t, f, a, o) ==
    CommitAllocated(f, a, o, FreeListWrite(a.fl, [ZeroPage EXCEPT !.id = a.page_id]))

\* after free_list.free(meta.free_list, p) returned fr
CommitFreed(t, f, fr, o) ==
    IF ~fr.ok THEN CommitResult("ErrInodeOverFlow", t, fr.fl, f, -1)
    ELSE CommitAllocate(t, f, TxAllocate(t, fr.fl, FreeListSize(fr.fl)), o)

\* after root.rebalance() and root.spill(): meta.root.root = bucket.root
CommitSpilled(t, f, fl, o) ==
    CommitFreed(t, f, FreeListFree(fl, t.meta.free_list, f[t.meta.free_list]), o)

\* ITransaction::commit of a writer under outcome o
TxCommit(t, f, fl, o) ==
    IF BucketSpill(t.b).res # "Ok" THEN CommitResult("Panic", t, fl, f, -1)
    ELSE CommitSpilled([t EXCEPT !.b = BucketSpill(t.b).b,
                                 !.meta.root.root = BucketSpill(t.b).b.bucket.root],
                       f, fl, o)

\* the commit of t gets as far as write_pages: spill does not panic and
\* free_list.free returns Ok
ReachesWrites(t, f, fl) ==
    /\ BucketSpill(t.b).res = "Ok"
    /\ FreeListFree(fl, t.meta.free_list, f[t.meta.free_list]).ok

\* the pages a commit of t may touch stay inside the file and its mapping
CommitFits(t) ==
    /\ t.meta.free_list \in PageIds
    /\ t.meta.num_pages < MaxPages

-----------------------------------------------------------------------------
(* The store (db.rs) and the actions *)

\* Idb::open once the meta m is selected: the free list is initialised from
\* the free-list page when that page lists an id
OpenFreeList(list) ==
    [ok |-> TRUE,
     fl |-> IF list # <<>> THEN FreeListInit(FreeListNew, list) ELSE FreeListNew]

OpenAt(free_page) ==
    IF ~PageFreeListOk(free_page) THEN [ok |-> FALSE, fl |-> FreeListNew]
    ELSE OpenFreeList(Words(free_page.list, free_page.count))

OpenWith(f, m) ==
    IF m.ok # "ok" THEN [ok |-> FALSE, fl |-> FreeListNew]
    ELSE OpenAt(f[m.meta.free_list])

\* Idb::open on file f: [ok, fl]
IdbOpen(f) == OpenWith(f, IdbMeta(f))

\* DB::tx without the check of has_write
TxAllowedAlways(hw, writable) == TRUE

\* DB::tx: a transaction is refused whenever has_write is set
TxAllowed(hw, writable) == ~hw

\* what a bucket holds for the specification: key -> value or None
Content(t) ==
    [k \in Keys |->
        IF \E i \in 1..Len(t.b.root.inodes) : t.b.root.inodes[i].key = k
        THEN LET i == CHOOSE i \in 1..Len(t.b.root.inodes) : t.b.root.inodes[i].key = k
             IN  t.b.root.inodes[i].value
        ELSE None]

LiveWriters == {h \in alive : tx[h].writable}

\* the last operation: its name, the handle it acted on, what it returned
Ret(op, h, res) == [op |-> op, h |-> h, res |-> res]

TxEmpty == [h \in Handles |-> NoTx]

Init ==
    /\ file = init_file
    /\ dbOpen = TRUE
    /\ has_write = FALSE
    /\ free_list = IdbOpen(init_file).fl
    /\ tx = TxEmpty
    /\ alive = {}
    /\ nTx = 0
    /\ nFault = 0
    /\ ret = Ret("init", 0, "Ok")

\* what get returns under every key in transaction t over file f
Snapshot(t, f) == [k \in Keys |-> BucketGet(t, f, k)]

\* the handle of a new transaction with what it read at construction
TxSnap(t, f) == [t EXCEPT !.snap = Snapshot(t, f)]

\* Transaction::new: the handle built from the selected meta m; meta0, fl0
\* and snap keep the meta, the free list and the results of get at
\* construction
TransactionNew(m, writable, fl, f) ==
    TxSnap([NoTx EXCEPT !.writable = writable,
                        !.meta = IF writable THEN [m EXCEPT !.tx_id = @ + 1] ELSE m,
                        !.b = BucketNew(m.root), !.meta0 = m, !.fl0 = fl], f)

\* the name of a begin in ret
TxOp(writable) == IF writable THEN "tx(true)" ELSE "tx(false)"

\* DB::tx(writable) when it is allowed: handle h over the meta m of db.meta()
TxBegin(writable, h, m) ==
    /\ has_write' = (has_write \/ writable)
    /\ IF m.ok = "ok"
       THEN /\ tx' = [tx EXCEPT ![h] = TransactionNew(m.meta, writable, free_list, file)]
            /\ alive' = alive \cup {h}
            /\ nTx' = h
            /\ ret' = Ret(TxOp(writable), h, "Ok")
       ELSE /\ ret' = Ret(TxOp(writable), 0, "Panic")
            /\ UNCHANGED <<tx, alive, nTx>>
    /\ UNCHANGED <<file, dbOpen, free_list, nFault>>

\* DB::tx(writable), the handle among the first max of the behaviour
TxUpTo(writable, max) ==
    /\ dbOpen
    /\ nTx < max
    /\ IF ~TxAllowed(has_write, writable)
       THEN /\ ret' = Ret(TxOp(writable), 0, "ErrWritableTxNotAllowed")
            /\ UNCHANGED <<file, dbOpen, has_write, free_list, tx, alive, nTx, nFault>>
       ELSE TxBegin(writable, nTx + 1, IdbMeta(file))

\* DB::tx(writable)
DBtx(writable) == TxUpTo(writable, MaxTx)

\* Bucket::put has returned r
PutDone(h, r) ==
    /\ tx' = [tx EXCEPT ![h] = r.t]
    /\ ret' = Ret("put", h, r.res)

\* Bucket::put on the root bucket of handle h
Put(h, key, value) ==
    /\ dbOpen /\ h \in alive
    /\ \E j \in BOOLEAN :
          PutDone(h, PutFrees(tx[h], BucketPut(tx[h], file, key, value), key, j))
    /\ UNCHANGED <<file, dbOpen, has_write, free_list, alive, nTx, nFault>>

\* how a get ended: it panicked, found nothing, or found a value
GetRes(v) == IF v = Panic THEN "Panic" ELSE IF v = None THEN "None" ELSE "Some"

\* Bucket::get on the root bucket of handle h
Get(h, key) ==
    /\ dbOpen /\ h \in alive
    /\ ret' = Ret("get", h, GetRes(BucketGet(tx[h], file, key)))
    /\ UNCHANGED <<file, dbOpen, has_write, free_list, tx, alive, nTx, nFault>>

\* ITransaction::create_bucket or create_bucket_if_not_exist (op) on handle
\* h has returned r
CreateDone(h, op, r) ==
    /\ tx' = [tx EXCEPT ![h] = r.t]
    /\ ret' = Ret(op, h, r.res)

\* ITransaction::create_bucket(name)
CreateBucket(h, name, g) ==
    /\ dbOpen /\ h \in alive
    /\ CreateDone(h, "create_bucket",
                  TxCreated(tx[h], create_bucket(tx[h], file, name, g)))
    /\ UNCHANGED <<file, dbOpen, has_write, free_list, alive, nTx, nFault>>

\* ITransaction::create_bucket_if_not_exist(name)
CreateBucketIfNotExist(h, name, g) ==
    /\ dbOpen /\ h \in alive
    /\ CreateDone(h, "create_bucket_if_not_exist",
                  TxCreated(tx[h], create_bucket_if_not_exist(tx[h], file, name, g)))
    /\ UNCHANGED <<file, dbOpen, has_write, free_list, alive, nTx, nFault>>

\* Bucket::put through the guard of the sub-bucket name that handle h
\* created or opened
PutChild(h, name, key, value) ==
    /\ dbOpen /\ h \in alive
    /\ Cached(tx[h].b, name)
    /\ CreateDone(h, "child_put", ChildPut(tx[h], file, name, key, value))
    /\ UNCHANGED <<file, dbOpen, has_write, free_list, alive, nTx, nFault>>

\* Bucket::get through the guard of the sub-bucket name of handle h
GetChild(h, name, key) ==
    /\ dbOpen /\ h \in alive
    /\ Cached(tx[h].b, name)
    /\ ret' = Ret("child_get", h, GetRes(BucketGet(ChildTx(tx[h], name), file, key)))
    /\ UNCHANGED <<file, dbOpen, has_write, free_list, tx, alive, nTx, nFault>>

\* the state a dead process leaves: the file alone
Dead(f) ==
    /\ file' = f
    /\ dbOpen' = FALSE
    /\ has_write' = FALSE
    /\ free_list' = FreeListNew
    /\ tx' = TxEmpty
    /\ alive' = {}

\* a commit of handle h has ended as c; called by the user it leaves the
\* handle alive, called by Drop for Transaction (op = "drop") its result is
\* unwrapped and the handle is gone
CommitDone(h, o, op, c) ==
    IF c.res = "crash"
    THEN /\ Dead(c.f)
         /\ ret' = Ret(op, h, o.kind)
         /\ UNCHANGED nTx
    ELSE /\ file' = c.f
         /\ free_list' = c.fl
         /\ IF op = "drop"
            THEN /\ tx' = [tx EXCEPT ![h] = NoTx]
                 /\ alive' = alive \ {h}
                 /\ has_write' = FALSE
                 /\ ret' = Ret(op, h, IF c.res = "Ok" THEN "Ok" ELSE "Panic")
            ELSE /\ tx' = [tx EXCEPT ![h] = c.t]
                 /\ ret' = Ret(op, h, c.res)
                 /\ UNCHANGED <<alive, has_write>>
         /\ UNCHANGED <<dbOpen, nTx>>

\* the commit of the writer h under outcome o; a fault (any outcome but
\* "ok") is taken from the budget MaxFaults
CommitStep(h, o, op) ==
    /\ CommitFits(tx[h])
    /\ o.kind = "ok" \/ (nFault < MaxFaults /\ ReachesWrites(tx[h], file, free_list))
    /\ nFault' = IF o.kind = "ok" THEN nFault ELSE nFault + 1
    /\ CommitDone(h, o, op, TxCommit(tx[h], file, free_list, o))

\* a commit that any transaction may run
CommitAllowedAlways(writable) == TRUE

\* the test at the head of ITransaction::commit: only a writer commits
CommitAllowed(writable) == writable

\* ITransaction::commit
Commit(h, o) ==
    /\ dbOpen /\ h \in alive
    /\ IF ~CommitAllowed(tx[h].writable)
       THEN /\ o.kind = "ok"
            /\ ret' = Ret("commit", h, "ErrReadOnly")
            /\ UNCHANGED <<file, dbOpen, has_write, free_list, tx, alive, nTx, nFault>>
       ELSE CommitStep(h, o, "commit")

\* ITransaction::rollback has returned r
RollbackDone(h, r) ==
    /\ free_list' = r.fl
    /\ tx' = [tx EXCEPT ![h].rolled = TRUE]
    /\ ret' = Ret("rollback", h, r.res)

\* ITransaction::rollback
Rollback(h) ==
    /\ dbOpen /\ h \in alive
    /\ RollbackDone(h, TxRollback(tx[h], file, free_list))
    /\ UNCHANGED <<file, dbOpen, has_write, alive, nTx, nFault>>

\* Drop for Transaction: a reader rolls back, a writer releases the writer
\* flag and commits
Drop(h, o) ==
    /\ dbOpen /\ h \in alive
    /\ IF ~tx[h].writable
       THEN /\ o.kind = "ok"
            /\ tx' = [tx EXCEPT ![h] = NoTx]
            /\ alive' = alive \ {h}
            /\ ret' = Ret("drop", h, "Ok")
            /\ UNCHANGED <<file, dbOpen, has_write, free_list, nTx, nFault>>
       ELSE CommitStep(h, o, "drop")

\* the process dies between two operations
Crash ==
    /\ dbOpen
    /\ Dead(file)
    /\ ret' = Ret("crash", 0, "Ok")
    /\ UNCHANGED <<nTx, nFault>>

\* the DB is dropped: its handles can no longer reach the store
Close ==
    /\ dbOpen
    /\ Dead(file)
    /\ ret' = Ret("close", 0, "Ok")
    /\ UNCHANGED <<nTx, nFault>>

\* Idb::open has returned o
OpenDone(o) ==
    /\ dbOpen' = o.ok
    /\ free_list' = o.fl
    /\ ret' = Ret("open", 0, IF o.ok THEN "Ok" ELSE "Err")

\* DB::open of the existing file
Open ==
    /\ ~dbOpen
    /\ OpenDone(IdbOpen(file))
    /\ UNCHANGED <<file, has_write, tx, alive, nTx, nFault>>

Next ==
    \/ \E w \in BOOLEAN : DBtx(w)
    \/ \E h \in Handles, k \in 0..MaxKey, v \in Vals : Put(h, k, v)
    \/ \E h \in Handles, k \in Keys : Get(h, k)
    \/ \E h \in Handles, o \in Outcomes : Commit(h, o)
    \/ \E h \in Handles : Rollback(h)
    \/ \E h \in Handles, o \in Outcomes : Drop(h, o)
    \/ Crash
    \/ Close
    \/ Open

\* the store and its transactions under every outcome of a commit and a
\* death of the process at any time; the transactions use the root bucket
Spec == Init /\ [][Next]_vars

\* every operation of a transaction, sub-buckets included, in an
\* environment that lets every commit run to its end
NextBuckets ==
    \/ \E w \in BOOLEAN : DBtx(w)
    \/ \E h \in Handles, k \in 0..MaxKey, v \in Vals : Put(h, k, v)
    \/ \E h \in Handles, k \in Keys : Get(h, k)
    \/ \E h \in Handles, n \in Names, g \in GarbageRoots : CreateBucket(h, n, g)
    \/ \E h \in Handles, n \in Names, g \in GarbageRoots : CreateBucketIfNotExist(h, n, g)
    \/ \E h \in Handles, n \in Names, k \in 0..MaxChildKey, v \in Vals : PutChild(h, n, k, v)
    \/ \E h \in Handles, n \in Names, k \in ChildKeys : GetChild(h, n, k)
    \/ \E h \in Handles : Commit(h, OkOutcome)
    \/ \E h \in Handles : Rollback(h)
    \/ \E h \in Handles : Drop(h, OkOutcome)
    \/ Close
    \/ Open

SpecBuckets == Init /\ [][NextBuckets]_vars

-----------------------------------------------------------------------------
(* Properties *)

\* the root bucket of handle h holds a value under key k
Present(h, k) == BucketGet(tx[h], file, k) \notin {None, Panic}

\* C1: at no time are two writable transactions live, and DB::tx(true)
\* called while a writer is live returns the error, creates no handle and
\* leaves every transaction as it was
C1_SingleWriter ==
    /\ [](Cardinality(LiveWriters) <= 1)
    /\ [][(LiveWriters # {} /\ DBtx(TRUE)) =>
            /\ ret'.res = "ErrWritableTxNotAllowed"
            /\ alive' = alive /\ tx' = tx /\ nTx' = nTx]_vars

\* a begin of a writer was refused while a writer is live
C1_Witness ==
    /\ ret.op = "tx(true)" /\ ret.res = "ErrWritableTxNotAllowed"
    /\ LiveWriters # {}

C3_PutReplaces ==
    [][\A h \in Handles, k \in Keys, v \in Vals :
         (h \in alive /\ tx[h].writable /\ Present(h, k) /\ Put(h, k, v)) =>
            /\ BucketGet(tx'[h], file', k) = v
            /\ Len(tx'[h].b.root.inodes) = Len(tx[h].b.root.inodes)
            /\ \A k2 \in Keys \ {k} :
                  BucketGet(tx'[h], file', k2) = BucketGet(tx[h], file, k2)]_vars

\* C4: the commit of a writer that holds a value under key k, run to its
\* end, succeeds, and a transaction begun afterwards on the file gets that
\* value under k
C4_CommittedVisible ==
    [][\A h \in Handles : \A k \in Keys :
         (h \in alive /\ tx[h].writable /\ Present(h, k) /\ Commit(h, OkOutcome)) =>
            /\ ret'.res = "Ok"
            /\ BucketGet(TransactionNew(IdbMeta(file').meta, FALSE, free_list', file'),
                         file', k)
               = BucketGet(tx[h], file, k)]_vars

\* C5: in a live read-only transaction get returns under every key what it
\* returned when the transaction was constructed, whatever was committed
\* since
C5_ReaderSnapshot ==
    \A h \in alive : ~tx[h].writable =>
        \A k \in Keys : BucketGet(tx[h], file, k) = tx[h].snap[k]

\* a reader is live while the file selects the meta of a writer that
\* committed after the reader was constructed
C5_Witness ==
    \E h \in alive :
        /\ ~tx[h].writable
        /\ IdbMeta(file).meta.tx_id > tx[h].meta.tx_id
        /\ IdbMeta(file).meta.free_list # tx[h].meta.free_list

\* the meta a reopen of the file selects
Selected(f) == IdbMeta(f).meta

\* the last step was a commit (by the user or by Drop for Transaction) of the
\* writer h that the environment ended as res
Committed(h, res) ==
    /\ h \in alive /\ tx[h].writable
    /\ ret'.op \in {"commit", "drop"} /\ ret'.h = h /\ ret'.res = res

\* C6: a commit that dies between write_pages and write_meta leaves a file
\* that selects the meta selected when the transaction began, with the
\* pages that meta reaches as they were, and wrote only pages that were free
\* or lie past the end of the data
C6_CrashBeforeMeta ==
    [][\A h \in Handles : Committed(h, "crash_mid") =>
          /\ IdbMeta(file').ok = "ok"
          /\ Selected(file').tx_id = tx[h].meta0.tx_id
          /\ Selected(file').root = tx[h].meta0.root
          /\ Selected(file').free_list = tx[h].meta0.free_list
          /\ \A p \in {0, 1, tx[h].meta0.root.root, tx[h].meta0.free_list} :
                file'[p] = file[p]
          /\ \A p \in PageIds : file'[p] # file[p] =>
                p \in free_list.free_pages \/ p >= tx[h].meta0.num_pages]_vars

\* a page of the file is a completely written page of one of the kinds
WholePage(f, p, kinds) == p \in PageIds /\ f[p].page_type \in kinds /\ ~f[p].torn

\* C7: whatever prefix of a commit's writes reached the file, one meta slot
\* validates and the selected meta names a whole root page and a whole
\* free-list page
C7_SelectedMetaWhole ==
    /\ IdbMeta(file).ok = "ok"
    /\ WholePage(file, Selected(file).root.root, {LEAF_PAGE, BRANCH_PAGE})
    /\ WholePage(file, Selected(file).free_list, {FREE_LIST_PAGE})

\* C8: a successful commit of transaction id t writes its meta into slot
\* t mod 2 and leaves alone the other slot, which holds the meta selected
\* when the transaction began
C8_MetaSlotAlternates ==
    [][\A h \in Handles : Committed(h, "Ok") =>
          /\ file'[tx[h].meta.tx_id % 2].meta.tx_id = tx[h].meta.tx_id
          /\ file'[1 - (tx[h].meta.tx_id % 2)] = file[1 - (tx[h].meta.tx_id % 2)]
          /\ file'[MetaSlot(tx[h].meta0)] = file[MetaSlot(tx[h].meta0)]]_vars

\* C9: the drop of a writer that has rolled back writes nothing to the
\* file, neither a page nor a meta
C9_RollbackWritesNothing ==
    [][\A h \in Handles :
          (h \in alive /\ tx[h].writable /\ tx[h].rolled
             /\ ret'.op = "drop" /\ ret'.h = h) => file' = file]_vars

\* C10: rollback() of a writer that has published nothing puts the free
\* list back to what it was when the writer began
C10_RollbackRestoresFreeList ==
    [][\A h \in Handles :
          (h \in alive /\ tx[h].writable /\ Selected(file) = tx[h].meta0
             /\ Rollback(h)) => free_list' = tx[h].fl0]_vars

\* the commit of the writer h is cut short by an I/O error of write_pages
\* or of write_meta
WriteFails(h, o) ==
    /\ o.kind \in {"io_pages", "io_meta"}
    /\ h \in alive /\ tx[h].writable
    /\ Commit(h, o)

\* C11: when write_pages or write_meta fails, commit rolls back and returns
\* the write's error, and the meta that open selects afterwards is the meta
\* that was selected when the transaction began
C11_FailedWriteKeepsMeta ==
    [][\A h \in Handles : \A o \in Outcomes :
         WriteFails(h, o) =>
            /\ ret'.res = "ErrIo"
            /\ Selected(file') = tx[h].meta0]_vars

\* C12: a read-only begin succeeds while a writable transaction is live
C12_ReaderBesideWriter ==
    [][(LiveWriters # {} /\ DBtx(FALSE)) =>
          /\ ret'.res = "Ok"
          /\ alive' = alive \cup {nTx + 1}
          /\ ~tx'[nTx + 1].writable]_vars

\* C13: once the only live writer has returned from commit() (with Ok or
\* with an error) or from rollback(), the next writable begin succeeds
C13_WriterSlotReleased ==
    [][(/\ ret.op \in {"commit", "rollback"}
        /\ LiveWriters = {ret.h}
        /\ DBtx(TRUE)) =>
          /\ ret'.res = "Ok"
          /\ alive' = alive \cup {nTx + 1}]_vars

\* the transaction DB::tx has just constructed, and whether it is writable
Constructed(h, writable) ==
    /\ nTx' = h /\ h = nTx + 1
    /\ ret'.op = TxOp(writable) /\ ret'.res = "Ok"

\* C14: a writer is constructed with the selected tx_id plus one and a
\* reader with the selected tx_id; every meta a commit publishes has a
\* tx_id above the one selected before it, so no tx_id is published twice;
\* and the selected meta is the valid one with the highest tx_id
C14_TxIdsIncrease ==
    /\ [][\A h \in Handles : \A w \in BOOLEAN :
            Constructed(h, w) =>
               tx'[h].meta.tx_id = Selected(file).tx_id + (IF w THEN 1 ELSE 0)]_vars
    /\ [][\A h \in Handles :
            Committed(h, "Ok") => Selected(file').tx_id > Selected(file).tx_id]_vars
    /\ [](dbOpen => /\ validate(Selected(file))
                    /\ \A s \in {0, 1} :
                          PageMetaOk(file[s]) /\ validate(file[s].meta)
                          => file[s].meta.tx_id <= Selected(file).tx_id)

\* put(key, value) on handle h is one the code refuses: the transaction is
\* read-only or the key is empty
PutRefused(h, key, value) ==
    /\ h \in alive
    /\ ~tx[h].writable \/ key = 0
    /\ Put(h, key, value)

\* C16: put returns an error when the transaction is read-only and when
\* the key is empty, and the bucket (its header, its root node with every
\* key and value, its node cache, its page) is as before
C16_PutRefusedChangesNothing ==
    [][\A h \in Handles : \A key \in 0..MaxKey : \A value \in Vals :
         PutRefused(h, key, value) =>
            /\ ret'.res = IF ~tx[h].writable THEN "ErrNotWritable" ELSE "ErrEmptyKey"
            /\ tx'[h].b = tx[h].b
            /\ Content(tx'[h]) = Content(tx[h])]_vars

\* a writer whose root node holds a key has been refused the empty key
C16_Witness ==
    /\ ret.op = "put" /\ ret.res = "ErrEmptyKey"
    /\ ret.h \in alive /\ tx[ret.h].writable
    /\ tx[ret.h].b.root.some
    /\ \E k \in Keys : Present(ret.h, k)

\* the step is an operation on the live read-only transaction h
ReaderStep(h) == h \in alive /\ ~tx[h].writable /\ ret'.h = h

\* C15: a read-only transaction never changes the store: its construction
\* and every operation on it (get, the refused put, create_bucket,
\* create_bucket_if_not_exist and commit, rollback, drop) leave the file,
\* with both meta pages, and the free list as they were, and its meta stays
\* the one it was constructed with; commit, put and the creation of a
\* bucket return an error
C15_ReaderChangesNothing ==
    [][\A h \in Handles :
         (ReaderStep(h) \/ Constructed(h, FALSE)) =>
            /\ file' = file
            /\ free_list' = free_list
            /\ Constructed(h, FALSE) => tx'[h].meta = IdbMeta(file).meta
            /\ (ReaderStep(h) /\ h \in alive') =>
                  tx'[h].meta = tx[h].meta /\ tx'[h].b = tx[h].b
            /\ ret'.op = "commit" => ret'.res = "ErrReadOnly"
            /\ ret'.op = "put" => ret'.res = "ErrNotWritable"
            /\ ret'.op \in {"create_bucket", "create_bucket_if_not_exist"}
                  => ret'.res = "ErrReadOnly"]_vars

\* a reader begun after a writer committed has been refused a commit
C15_Witness ==
    /\ ret.op = "commit" /\ ret.res = "ErrReadOnly"
    /\ ret.h \in alive /\ ~tx[ret.h].writable
    /\ tx[ret.h].meta.tx_id > 0

-----------------------------------------------------------------------------
(* Removing a key (node.rs) *)

\* Node::remove(key) on the root node of writer h, the node a cursor of the
\* bucket hands out once the bucket was written to
Remove(h, key) ==
    /\ dbOpen /\ h \in alive
    /\ tx[h].writable /\ tx[h].b.root.some
    /\ tx' = [tx EXCEPT ![h].b.root = NodeRemove(@, key)]
    /\ ret' = Ret("remove", h, "Ok")
    /\ UNCHANGED <<file, dbOpen, has_write, free_list, alive, nTx, nFault>>

NextRemove ==
    \/ \E w \in BOOLEAN : DBtx(w)
    \/ \E h \in Handles, k \in 0..MaxKey, v \in Vals : Put(h, k, v)
    \/ \E h \in Handles, k \in Keys : Get(h, k)
    \/ \E h \in Handles, k \in Keys : Remove(h, k)
    \/ \E h \in Handles : Commit(h, OkOutcome)
    \/ \E h \in Handles : Rollback(h)
    \/ \E h \in Handles : Drop(h, OkOutcome)

\* a writer's root node under put, get and Node::remove, and its commit
SpecRemove == Init /\ [][NextRemove]_vars

\* C17: removing a key from a writer's leaf node removes exactly that key:
\* afterwards get of the key returns None, every other key keeps its
\* value, and the node is marked unbalanced; removing an absent key changes
\* nothing
C17_RemoveExactlyKey ==
    [][\A h \in Handles : \A k \in Keys :
          Remove(h, k) =>
            /\ BucketGet(tx'[h], file', k) = None
            /\ \A k2 \in Keys \ {k} :
                  BucketGet(tx'[h], file', k2) = BucketGet(tx[h], file, k2)
            /\ Present(h, k) => tx'[h].b.root.unbalanced
            /\ ~Present(h, k) => tx'[h] = tx[h]]_vars

\* the root node of t holds the entry of a sub-bucket under name: the
\* value is a serialized bucket
HoldsBucket(t, name) ==
    \E i \in 1..Len(t.b.root.inodes) :
        t.b.root.inodes[i].key = name /\ t.b.root.inodes[i].value >= BucketBase

\* C18: get(name) returns None when name is the key of a sub-bucket entry;
\* get never returns a serialized bucket as a value
C18_GetHidesBucket ==
    [][\A h \in Handles : \A n \in Names :
          (h \in alive /\ HoldsBucket(tx[h], n) /\ Get(h, n)) =>
              /\ ret'.res = "None"
              /\ BucketGet(tx[h], file, n) = None]_vars

\* the root bucket of t holds an entry under name, whatever its value
HasEntry(t, f, name) == seek_to(t, f, name).ok /\ seek_to(t, f, name).pair.key = name

\* the entries of the root node of t under name
EntriesOf(t, name) ==
    {i \in 1..Len(t.b.root.inodes) : t.b.root.inodes[i].key = name}

\* C19: create_bucket(name) in a writable transaction returns the error
\* BucketExist and leaves the parent bucket unchanged when a key equal to
\* name is in the parent; otherwise it inserts exactly one entry under
\* name, which a cursor reads as flagged as a sub-bucket, and whose bucket
\* is empty
C19_CreateBucket ==
    [][\A h \in Handles : \A n \in Names : \A g \in GarbageRoots :
          (h \in alive /\ tx[h].writable /\ CreateBucket(h, n, g)) =>
              IF HasEntry(tx[h], file, n)
              THEN ret'.res = "ErrBucketExist" /\ tx'[h].b = tx[h].b
              ELSE /\ ret'.res = "Ok"
                   /\ Cardinality(EntriesOf(tx'[h], n)) = 1
                   /\ seek_to(tx'[h], file', n).pair.flags = FLAG
                   /\ Cached(tx'[h].b, n)
                   /\ \A k \in ChildKeys :
                         BucketGet(ChildTx(tx'[h], n), file', k) = None]_vars

\* C20: create_bucket_if_not_exist(name) in a writable transaction creates
\* the sub-bucket when name is absent and opens the existing one otherwise:
\* a second call yields the bucket with what was put into it, the parent
\* holds exactly one entry for name, and a plain value stored under name is
\* never turned into a bucket
C20_CreateOrOpen ==
    [][\A h \in Handles : \A n \in Names : \A g \in GarbageRoots :
          (h \in alive /\ tx[h].writable /\ CreateBucketIfNotExist(h, n, g)) =>
              IF HasEntry(tx[h], file, n) /\ ~HoldsBucket(tx[h], n)
              THEN tx'[h].b = tx[h].b
              ELSE /\ ret'.res = "Ok"
                   /\ Cached(tx'[h].b, n)
                   /\ Cardinality(EntriesOf(tx'[h], n)) = 1
                   /\ Cached(tx[h].b, n) =>
                         ChildOf(tx'[h].b, n) = ChildOf(tx[h].b, n)]_vars

\* C21: no page id is at the same time in the free set and in a pending
\* list of the free list
C21_FreeDisjointPending == free_list.free_pages \cap AllPending(free_list) = {}

\* a rollback has reloaded a free list that holds a free id beside pending ids
C21_Witness ==
    /\ ret.op = "rollback" /\ ret.res = "Ok"
    /\ free_list.free_pages # {}
    /\ AllPending(free_list) # {}

\* the pages that are live for the meta m: the two meta pages, its free-list
\* page and the root page of its root bucket (a leaf; no commit writes a
\* branch page or the page of a sub-bucket)
LivePages(m) == {0, 1, m.free_list, m.root.root}

\* C22: no page that is live for the newest committed meta is in the free
\* set of the free list
C22_LiveNotFree ==
    (dbOpen /\ IdbMeta(file).ok = "ok") =>
        LivePages(IdbMeta(file).meta) \cap free_list.free_pages = {}

\* the free list of a commit of t at its call of allocate: after
\* free_list.free of the old free-list page
FreedList(t, f, fl) == FreeListFree(fl, t.meta.free_list, f[t.meta.free_list]).fl

\* the page ITransaction::allocate hands to a commit of t
Allocated(t, f, fl) ==
    TxAllocate(t, FreedList(t, f, fl), FreeListSize(FreedList(t, f, fl))).page_id

\* page p is live in the snapshot of transaction t: a page of the file at
\* its construction that was neither free nor pending then
LiveFor(t, p) ==
    /\ p < t.meta0.num_pages
    /\ p \notin t.fl0.free_pages
    /\ p \notin AllPending(t.fl0)

\* C23: the page allocate hands to a commit is in no pending list, and it
\* is not a page that a live read-only transaction still sees as live
C23_PendingNotAllocated ==
    [][\A h \in Handles : \A o \in Outcomes :
          (/\ h \in alive /\ tx[h].writable
           /\ ReachesWrites(tx[h], file, free_list)
           /\ Commit(h, o) \/ Drop(h, o)) =>
              /\ Allocated(tx[h], file, free_list)
                    \notin AllPending(FreedList(tx[h], file, free_list))
              /\ \A r \in alive \ {h} :
                    ~tx[r].writable =>
                       ~LiveFor(tx[r], Allocated(tx[h], file, free_list))]_vars

\* DB::tx(writable) in a behaviour of commits and rollbacks alone
DBtxMore(writable) == TxUpTo(writable, MaxTx + MaxMore)

NextReuse ==
    \/ \E w \in BOOLEAN : DBtxMore(w)
    \/ \E h \in Handles : Commit(h, OkOutcome)
    \/ \E h \in Handles : Rollback(h)
    \/ \E h \in Handles : Drop(h, OkOutcome)
    \/ Close
    \/ Open

\* transactions that begin, commit, roll back and are dropped, every write
\* succeeding: the pages of the free list are released and handed out
SpecReuse == Init /\ [][NextReuse]_vars

\* the keys of node n are strictly ascending
Ascending(n) ==
    \A i, j \in 1..Len(n.inodes) : i < j => n.inodes[i].key < n.inodes[j].key

\* C24: after any sequence of put and remove on a node its inodes are
\* strictly ascending by key, no key occurring twice
C24_KeyOrder ==
    \A h \in alive :
        /\ Ascending(tx[h].b.root)
        /\ \A c \in tx[h].b.buckets : Ascending(c.b.root)

\* a remove has taken the lower key out of a node and left the higher one
C24_Witness ==
    /\ ret.op = "remove"
    /\ \E h \in alive : NodeKeys(tx[h].b.root) = <<MaxKey>>

\* the page of the root bucket of the meta selected in file f
RootPage(f) == f[IdbMeta(f).meta.root.root]

\* C26: after keys were put, all but one removed and the transaction
\* committed, the root page of the root bucket is a leaf page with exactly
\* one element (no branch is left with a single child)
C26_RebalanceToRoot ==
    [][\A h \in Handles :
          (/\ h \in alive /\ tx[h].writable
           /\ Len(tx[h].b.root.inodes) = 1
           /\ Commit(h, OkOutcome)) =>
              /\ ret'.res = "Ok"
              /\ RootPage(file').page_type = LEAF_PAGE
              /\ RootPage(file').count = 1]_vars

\* C27: the commit of a transaction that holds a sub-bucket succeeds and
\* stores the sub-bucket, which is a leaf without nested buckets and of a
\* size below a quarter of a page, inline in the leaf of its parent: the
\* parent's root page is a leaf that holds the entry
C27_InlineAtCommit ==
    [][\A h \in Handles : \A n \in Names :
          (/\ h \in alive /\ tx[h].writable
           /\ Cached(tx[h].b, n) /\ HoldsBucket(tx[h], n)
           /\ Commit(h, OkOutcome)) =>
              /\ ret'.res = "Ok"
              /\ RootPage(file').page_type = LEAF_PAGE
              /\ RootPage(file').count >= 1]_vars

\* the meta of slot i of file f counts as valid: its magic matches and its
\* checksum verifies
ValidSlot(f, i) == validate(f[i].meta)

\* the meta the claim selects in file f when a slot is valid
Chosen(f) ==
    IF ValidSlot(f, 0) /\ ValidSlot(f, 1)
    THEN IF f[1].meta.tx_id > f[0].meta.tx_id THEN f[1].meta ELSE f[0].meta
    ELSE IF ValidSlot(f, 0) THEN f[0].meta ELSE f[1].meta

\* C30: the meta selected in the file is the valid one with the higher
\* tx_id, meta 0 on a tie, the only valid one when one slot is valid; with
\* no valid slot an open gives no store and a begin no transaction
C30_MetaSelection ==
    /\ [](IF ValidSlot(file, 0) \/ ValidSlot(file, 1)
          THEN IdbMeta(file).ok = "ok" /\ IdbMeta(file).meta = Chosen(file)
          ELSE IdbMeta(file).ok # "ok")
    /\ [][(~ValidSlot(file, 0) /\ ~ValidSlot(file, 1)) =>
             /\ Open => ~dbOpen'
             /\ (\E w \in BOOLEAN : DBtx(w)) => alive' = alive]_vars

\* ---------------------------------------------------------------------
\* Iterating a bucket with a Cursor (cursor.rs)
\* ---------------------------------------------------------------------

\* the stack of the cursor of t
Frame(t) == [pn |-> t.cur.pn, index |-> t.cur.index, up |-> t.cur.up]

\* the cursor whose stack is c after a call that returned pair
CursorAt(c, pair) ==
    [on |-> TRUE, pn |-> c.pn, index |-> c.index, up |-> c.up, pair |-> pair]

\* Cursor::first once page_node has returned pn for the root. On a leaf
\* first_leaf stops at once and kv_pair reads the element at index 0. On a
\* branch first_leaf reads the child at index 0 and pushes its frame while it
\* holds the shared borrow of the stack, so that the push panics
FirstAt(t, f, pn) ==
    IF pn.kind = "err" THEN [res |-> pn.err, cur |-> NoCursor]
    ELSE IF ElemIsLeaf(pn)
    THEN [res |-> "Ok",
          cur |-> CursorAt([pn |-> pn, index |-> 0, up |-> <<>>],
                           kv_pair(t, [pn |-> pn, index |-> 0]))]
    ELSE IF pn.page.page_type # BRANCH_PAGE
    THEN [res |-> "InvalidPageType", cur |-> NoCursor]
    ELSE IF pn.page.count = 0 THEN [res |-> "Panic", cur |-> NoCursor]
    ELSE IF page_node(t, f, pn.page.elems[1].id).kind = "err"
    THEN [res |-> page_node(t, f, pn.page.elems[1].id).err, cur |-> NoCursor]
    ELSE [res |-> "Panic", cur |-> NoCursor]

\* Cursor::first
first(t, f) == FirstAt(t, f, page_node(t, f, root_id(t)))

\* the cursor after Cursor::next has ended as r: a panic unwinds and drops
\* the cursor
AfterNext(r) == IF r.res = "Ok" THEN CursorAt(r.c, r.pair) ELSE NoCursor

\* the cursor after Cursor::seek has returned s
AfterSeek(s) == IF s.ok THEN CursorAt(s.c, s.pair) ELSE NoCursor

\* a cursor call (op) on the root bucket of handle h has ended
CursorDone(h, op, res, cur) ==
    /\ tx' = [tx EXCEPT ![h].cur = cur]
    /\ ret' = Ret(op, h, res)
    /\ UNCHANGED <<file, dbOpen, has_write, free_list, alive, nTx, nFault>>

\* Cursor::new on the root bucket of handle h, then Cursor::first
CursorFirst(h) ==
    /\ dbOpen /\ h \in alive
    /\ CursorDone(h, "first", first(tx[h], file).res, first(tx[h], file).cur)

\* Cursor::next on the cursor of handle h
CursorNextStep(h) ==
    /\ dbOpen /\ h \in alive /\ tx[h].cur.on
    /\ CursorDone(h, "next", CursorNext(tx[h], Frame(tx[h])).res,
                  AfterNext(CursorNext(tx[h], Frame(tx[h]))))

\* Cursor::new on the root bucket of handle h, then Cursor::seek(target)
CursorSeek(h, target) ==
    /\ dbOpen /\ h \in alive
    /\ CursorDone(h, "seek",
                  IF seek(tx[h], file, target).ok THEN "Ok"
                  ELSE seek(tx[h], file, target).err,
                  AfterSeek(seek(tx[h], file, target)))

\* the cursor of handle h goes out of scope
CursorEnd(h) ==
    /\ dbOpen /\ h \in alive /\ tx[h].cur.on
    /\ CursorDone(h, "cursor_end", "Ok", NoCursor)

\* Bucket::put while no cursor borrows the bucket
PutNoCursor(h, key, value) == ~tx[h].cur.on /\ Put(h, key, value)

NextCursor ==
    \/ \E w \in BOOLEAN : DBtx(w)
    \/ \E h \in Handles, k \in 0..MaxKey, v \in Vals : PutNoCursor(h, k, v)
    \/ \E h \in Handles : CursorFirst(h)
    \/ \E h \in Handles : CursorNextStep(h)
    \/ \E h \in Handles, k \in Keys : CursorSeek(h, k)
    \/ \E h \in Handles : CursorEnd(h)

\* cursors on the root buckets of the transactions, between their puts
SpecCursor == Init /\ [][NextCursor]_vars

\* the keys under the page or node pn of the tree of t, in order
RECURSIVE KeysUnder(_, _, _, _)
KeysUnder(t, f, pn, i) ==
    IF pn.kind = "err" THEN <<>>
    ELSE IF ElemIsLeaf(pn) THEN ElemKeys(t, pn)
    ELSE IF pn.page.page_type # BRANCH_PAGE \/ i > pn.page.count THEN <<>>
    ELSE KeysUnder(t, f, page_node(t, f, pn.page.elems[i].id), 1)
             \o KeysUnder(t, f, pn, i + 1)

\* the keys a cursor on the root bucket of t has to visit, in order
BucketKeys(t, f) == KeysUnder(t, f, page_node(t, f, root_id(t)), 1)

\* the least key of ks that is greater than k, None when there is none
KeyAfter(ks, k) ==
    IF \E i \in 1..Len(ks) : ks[i] > k
    THEN ks[Cardinality({i \in 1..Len(ks) : ks[i] <= k}) + 1]
    ELSE None

\* C28: first() returns the lowest key of the bucket (the null pair when the
\* bucket is empty), and every next() returns without failing the key that
\* follows the one returned before, so that every key is visited once in
\* ascending order; after the last key next() returns the null pair, and
\* after the null pair it keeps returning the null pair.
C28_FirstThenNext ==
    [][\A h \in Handles :
          /\ CursorFirst(h) =>
                /\ ret'.res = "Ok"
                /\ tx'[h].cur.pair.key = KeyAfter(BucketKeys(tx[h], file), None)
          /\ CursorNextStep(h) =>
                /\ ret'.res = "Ok"
                /\ tx'[h].cur.pair.key =
                      IF tx[h].cur.pair.key = None THEN None
                      ELSE KeyAfter(BucketKeys(tx[h], file), tx[h].cur.pair.key)]_vars

\* ---------------------------------------------------------------------
\* A store file that holds a tree of two levels
\* ---------------------------------------------------------------------

\* the keys of the stored tree, and the targets of seek and get
TreeKeys == 1..(MaxKey + 1)

\* the leaf elements of the keys ks, in order
LeafElems(ks) == [i \in 1..Len(ks) |-> [key |-> ks[i], value |-> 1]]

\* the ascending sequence of the keys of the set S
RECURSIVE SortedSeq(_)
SortedSeq(S) ==
    IF S = {} THEN <<>>
    ELSE LET m == CHOOSE x \in S : \A y \in S : x <= y
         IN  <<m>> \o SortedSeq(S \ {m})

\* a page of the tree: the header with the count of its elements
TreePage(id, page_type, elems) ==
    [ZeroPage EXCEPT !.id = id, !.page_type = page_type,
                     !.count = Len(elems), !.elems = elems]

\* a store file in the on-disk format whose root bucket is the branch page 3
\* over the leaf pages 4 (keys lo) and 5 (keys hi); the key of a branch
\* element is the lowest key of its child
tree_file(lo, hi) ==
    [i \in PageIds |->
        IF i < 2
        THEN [ZeroPage EXCEPT !.page_type = META_PAGE, !.id = i,
                 !.meta = MetaInit([ZeroMeta EXCEPT !.free_list = 2,
                                                    !.num_pages = 6], i)]
        ELSE IF i = 2
        THEN [ZeroPage EXCEPT !.id = 2, !.page_type = FREE_LIST_PAGE]
        ELSE IF i = 3
        THEN TreePage(3, BRANCH_PAGE, <<[key |-> lo[1], id |-> 4],
                                        [key |-> hi[1], id |-> 5]>>)
        ELSE IF i = 4 THEN TreePage(4, LEAF_PAGE, LeafElems(lo))
        ELSE IF i = 5 THEN TreePage(5, LEAF_PAGE, LeafElems(hi))
        ELSE ZeroPage]

\* DBBuilder::open on an existing file that holds a tree of two leaves
InitTree ==
    /\ \E L \in SUBSET TreeKeys, H \in SUBSET TreeKeys :
          /\ L # {} /\ H # {}
          /\ \A x \in L, y \in H : x < y
          /\ file = tree_file(SortedSeq(L), SortedSeq(H))
    /\ dbOpen = TRUE
    /\ has_write = FALSE
    /\ free_list = IdbOpen(file).fl
    /\ tx = TxEmpty
    /\ alive = {}
    /\ nTx = 0
    /\ nFault = 0
    /\ ret = Ret("init", 0, "Ok")

NextTree ==
    \/ \E w \in BOOLEAN : DBtx(w)
    \/ \E h \in Handles, k \in TreeKeys, v \in Vals : PutNoCursor(h, k, v)
    \/ \E h \in Handles, k \in TreeKeys : Get(h, k)
    \/ \E h \in Handles : CursorFirst(h)
    \/ \E h \in Handles : CursorNextStep(h)
    \/ \E h \in Handles, k \in TreeKeys : CursorSeek(h, k)
    \/ \E h \in Handles : CursorEnd(h)
    \/ \E h \in Handles : Rollback(h)

\* transactions that read a stored tree of two levels
SpecTree == InitTree /\ [][NextTree]_vars

\* C29: seek(target) returns without failing the element with the smallest
\* key of the whole bucket that is not below target, stepping to the next
\* leaf where the leaf it descended into has no such key, and the null pair
\* exactly when the bucket has no such key; at each branch it has descended
\* into the highest index whose key is not above target, or into index 0.
C29_SeekLeastNotBelow ==
    [][\A h \in Handles : \A k \in TreeKeys :
          CursorSeek(h, k) =>
              /\ ret'.res = "Ok"
              /\ tx'[h].cur.pair.key = KeyAfter(BucketKeys(tx[h], file), k - 1)
              /\ \A i \in 1..Len(tx'[h].cur.up) :
                    tx'[h].cur.up[i].index =
                        BranchIndex(PageKeys(tx'[h].cur.up[i].pn.page), k)]_vars

\* ---------------------------------------------------------------------
\* The file that init_file creates (db.rs)
\* ---------------------------------------------------------------------

\* page i of file f is a meta page whose meta validates and names free-list
\* page 2 and root page 3
FreshMeta(f, i) ==
    /\ f[i].page_type = META_PAGE
    /\ validate(f[i].meta)
    /\ f[i].meta.free_list = 2
    /\ f[i].meta.root.root = 3

\* C31: the file that init_file has created holds valid metas in pages 0
\* and 1 with tx_id 0 and 1, both naming page 2 as the free list and page 3
\* as the root, page 2 is an empty free-list page and page 3 an empty leaf
\* page; the first open selects the meta with the higher tx_id and the first
\* writer gets the tx_id after it.
C31_FreshFile ==
    /\ [](ret.op = "init" =>
            /\ FreshMeta(file, 0) /\ FreshMeta(file, 1)
            /\ file[0].meta.tx_id = 0 /\ file[1].meta.tx_id = 1
            /\ file[2].page_type = FREE_LIST_PAGE /\ file[2].count = 0
            /\ file[3].page_type = LEAF_PAGE /\ file[3].count = 0
            /\ IdbMeta(file).ok = "ok"
            /\ IdbMeta(file).meta.tx_id >= file[0].meta.tx_id
            /\ IdbMeta(file).meta.tx_id >= file[1].meta.tx_id)
    /\ [][(ret.op = "init" /\ DBtx(TRUE)) =>
             tx'[1].meta.tx_id = IdbMeta(file).meta.tx_id + 1]_vars

\* the free-list page a commit of t writes: FreeList::write of the freed
\* list into the page that allocate returned
NewFreePage(t, f, fl) ==
    FreeListWrite(TxAllocate(t, FreedList(t, f, fl), FreeListSize(FreedList(t, f, fl))).fl,
                  [ZeroPage EXCEPT !.id = Allocated(t, f, fl)])

\* a commit of t that started on file f with free list fl and left file g
\* ran its steps in the order of ITransaction::commit
CommitOrdered(t, f, fl, g) ==
    /\ BucketSpill(t.b).res # "Ok" => g = f
    /\ ReachesWrites(t, f, fl) =>
         /\ (g[MetaSlot(t.meta)] # f[MetaSlot(t.meta)]
               /\ MetaSlot(t.meta) # Allocated(t, f, fl))
              => g[Allocated(t, f, fl)] = NewFreePage(t, f, fl)
         /\ g[Allocated(t, f, fl)] = NewFreePage(t, f, fl)
              => \E i \in 1..Len(g[Allocated(t, f, fl)].list) :
                    g[Allocated(t, f, fl)].list[i] = f[t.meta.free_list].id

-----------------------------------------------------------------------------
(* The free list on its own (free_list.rs): allocate and free called on
   free lists of every shape *)

\* the longest run FreeList::allocate is asked for
MaxRun == 3
\* FreeList::free is called while the pending lists hold fewer ids than this
MaxPending == 2

\* a free list with free ids S and the ids P pending under transaction 1
FreeListOf(S, P) ==
    [pending |-> IF P = {} THEN <<>> ELSE PendingPut(<<>>, 1, SetToSortedSeq(P)),
     free_pages |-> S,
     cache |-> S \cup P]

InitFreeList ==
    /\ file = init_file
    /\ dbOpen = TRUE
    /\ has_write = FALSE
    /\ \E S \in SUBSET PageIds, P \in SUBSET PageIds :
          /\ Cardinality(P) <= 1 /\ P \cap S = {}
          /\ free_list = FreeListOf(S, P)
    /\ tx = TxEmpty
    /\ alive = {}
    /\ nTx = 0
    /\ nFault = 0
    /\ ret = Ret("init", 0, "Ok")

\* FreeList::allocate(len); ret.h holds the id it returned, None for None
FlAllocate(len) ==
    /\ free_list' = FreeListAllocate(free_list, len).fl
    /\ ret' = Ret("allocate", FreeListAllocate(free_list, len).id,
                  IF FreeListAllocate(free_list, len).id = None THEN "None" ELSE "Some")
    /\ UNCHANGED <<file, dbOpen, has_write, tx, alive, nTx, nFault>>

\* FreeList::free(tx_id, p) for a page p with header id and overflow
FlFree(tx_id, id, overflow) ==
    /\ PendingCount(free_list, DOMAIN free_list.pending) + overflow < MaxPending
    /\ free_list' = FreeListFree(free_list, tx_id,
                                 [ZeroPage EXCEPT !.id = id, !.overflow = overflow]).fl
    /\ ret' = Ret("free", tx_id,
                  IF FreeListFree(free_list, tx_id,
                                  [ZeroPage EXCEPT !.id = id, !.overflow = overflow]).ok
                  THEN "Ok" ELSE "ErrInodeOverFlow")
    /\ UNCHANGED <<file, dbOpen, has_write, tx, alive, nTx, nFault>>

NextFreeList ==
    \/ \E len \in 1..MaxRun : FlAllocate(len)
    \/ \E tx_id \in 1..MaxTx, id \in PageIds, overflow \in 0..1 :
          FlFree(tx_id, id, overflow)

\* calls of FreeList::allocate and FreeList::free on any free list
SpecFreeList == InitFreeList /\ [][NextFreeList]_vars

\* the first ids of the runs of len consecutive ids in the set free
RunStarts(free, len) == {s \in free : \A i \in 0..(len - 1) : s + i \in free}

\* allocate(len) on fl returned got and left the list after: the run with
\* the lowest start when there is one, nothing otherwise
AllocatesLowestRun(fl, len, got, after) ==
    IF RunStarts(fl.free_pages, len) = {}
    THEN got = None /\ after = fl
    ELSE /\ got \in RunStarts(fl.free_pages, len)
         /\ \A s \in RunStarts(fl.free_pages, len) : got <= s
         /\ after = [fl EXCEPT !.free_pages = @ \ (got..(got + len - 1)),
                               !.cache = @ \ (got..(got + len - 1))]

\* C33: FreeList::allocate(n) for n >= 1 returns the first id of the run of
\* n consecutive free ids with the lowest start, removes exactly those n ids
\* from free_pages and from the cache and leaves every other free id and
\* every pending entry unchanged; when there is no such run it returns None
\* and leaves the free list unchanged
C33_AllocateRun ==
    [][\A len \in 1..MaxRun :
          FlAllocate(len) => AllocatesLowestRun(free_list, len, ret'.h, free_list')]_vars

\* the ids of a page with header id and overflow, in ascending order
PageRun(id, overflow) == [i \in 1..(overflow + 1) |-> id + i - 1]

\* the free lists fl and after hold the same ids: the same free ids, the
\* same cache and the same pending list under every transaction (a missing
\* pending entry counts as an empty one)
SameIds(fl, after) ==
    /\ after.free_pages = fl.free_pages
    /\ after.cache = fl.cache
    /\ \A k \in (DOMAIN fl.pending) \cup (DOMAIN after.pending) :
          PendingGet(after, k) = PendingGet(fl, k)

\* free(tx_id, p) on fl returned res and left the list after
FreesPage(fl, tx_id, id, overflow, res, after) ==
    IF \E x \in SeqRange(PageRun(id, overflow)) : x \in fl.free_pages
    THEN res = "ErrInodeOverFlow" /\ SameIds(fl, after)
    ELSE /\ res = "Ok"
         /\ PendingGet(after, tx_id) = PendingGet(fl, tx_id) \o PageRun(id, overflow)
         /\ after.free_pages = fl.free_pages
         /\ \A k \in (DOMAIN fl.pending) \cup (DOMAIN after.pending) :
               k # tx_id => PendingGet(after, k) = PendingGet(fl, k)

\* C34: FreeList::free(tx_id, page) appends every id in page.id ..= page.id +
\* page.overflow to pending[tx_id]; when one of those ids is in free_pages it
\* fails with an error and leaves free_pages, every pending list and the
\* cache as they were, with none of the page's ids added
C34_FreePage ==
    [][\A tx_id \in 1..MaxTx, id \in PageIds, overflow \in 0..1 :
          FlFree(tx_id, id, overflow)
             => FreesPage(free_list, tx_id, id, overflow, ret'.res, free_list')]_vars

-----------------------------------------------------------------------------
(* ITransaction::allocate on its own (transaction.rs): a writer allocates
   pages for data of several sizes from free lists of every shape *)

\* data sizes that need 1..MaxRun pages, at and just above a page boundary
Sizes ==
    {n * PageSize : n \in 1..MaxRun} \cup {(n - 1) * PageSize + 1 : n \in 1..MaxRun}

InitAllocate ==
    /\ file = init_file
    /\ dbOpen = TRUE
    /\ has_write = FALSE
    /\ \E S \in SUBSET PageIds : free_list = FreeListOf(S, {})
    /\ tx = TxEmpty
    /\ alive = {}
    /\ nTx = 0
    /\ nFault = 0
    /\ ret = Ret("init", 0, "Ok")

\* ITransaction::allocate(data_size) of handle h has returned r; ret.h holds
\* the id of the page
AllocateDone(h, r) ==
    /\ tx' = [tx EXCEPT ![h] = r.t]
    /\ free_list' = r.fl
    /\ ret' = Ret("allocate", r.page_id, "Ok")

\* ITransaction::allocate(data_size) on the writer h, while the pages stay
\* below MaxPages
TxAllocateStep(h, data_size) ==
    /\ dbOpen /\ h \in alive /\ tx[h].writable
    /\ tx[h].meta.num_pages + CeilDiv(data_size, PageSize) <= MaxPages
    /\ AllocateDone(h, TxAllocate(tx[h], free_list, data_size))
    /\ UNCHANGED <<file, dbOpen, has_write, alive, nTx, nFault>>

NextAllocate ==
    \/ DBtx(TRUE)
    \/ \E h \in Handles, data_size \in Sizes : TxAllocateStep(h, data_size)

\* a writer that calls allocate
SpecAllocate == InitAllocate /\ [][NextAllocate]_vars

\* allocate(data_size) of transaction t on free list fl returned page start
\* and left the transaction after: a is what the free list answered for the
\* n pages
AllocatesPages(t, a, n, start, after) ==
    /\ a.id # None => start = a.id /\ after.meta.num_pages = t.meta.num_pages
    /\ a.id = None => /\ start = t.meta.num_pages
                      /\ after.meta.num_pages = t.meta.num_pages + n
    /\ \E q \in after.pages : q.id = start /\ q.overflow = n - 1

\* C35: ITransaction::allocate(bytes) computes n = ceil(bytes / page_size),
\* takes the start id from the free list when it offers a run of n pages
\* (num_pages unchanged) and otherwise uses meta.num_pages and adds exactly n
\* to it; the dirty page it registers has id = start and overflow = n - 1, a
\* buffer of n pages, so that write_pages writes all n pages
C35_AllocatePages ==
    [][\A h \in Handles, data_size \in Sizes :
          TxAllocateStep(h, data_size)
             => AllocatesPages(tx[h],
                               FreeListAllocate(free_list, CeilDiv(data_size, PageSize)),
                               CeilDiv(data_size, PageSize), ret'.h, tx'[h])]_vars

\* C36: the commit of a writer that modified a node, run to its end,
\* succeeds; the node has been written into a newly allocated page, the page
\* the root was read from is pending under the transaction's id, and the
\* root page id of the published meta is that of the written leaf or branch
\* page: not 0, not a meta page and not the free-list page
C36_NodesWritten ==
    [][\A h \in Handles :
          (/\ h \in alive /\ tx[h].writable
           /\ tx[h].b.root.some
           /\ Commit(h, OkOutcome)) =>
              /\ ret'.res = "Ok"
              /\ IdbMeta(file').meta.root.root
                    \notin {0, 1, IdbMeta(file').meta.free_list, tx[h].meta.root.root}
              /\ RootPage(file').page_type \in {LEAF_PAGE, BRANCH_PAGE}
              /\ tx[h].meta.root.root
                    \in SeqRange(PendingGet(free_list', tx[h].meta.tx_id))]_vars

-----------------------------------------------------------------------------
(* Splitting a node (node.rs): break_up and split called on leaf nodes of
   every size. The node is the root node of handle 1 *)

MIN_KEY == 2
LeafElemSize == 12

\* a node holds up to MaxInodes inodes
MaxInodes == 5
\* the bytes of a key, and of each unit of a value: the value v stands for
\* v * ValUnit bytes
KeyLen == 8
ValUnit == 1024

\* the bytes an inode takes in a leaf page: elem_size + key.len() + value.len()
InodeSize(e) == LeafElemSize + KeyLen + e.value * ValUnit

\* Node::fit_page_size as its loop computes it: the sum must stay below
\* page_size
RECURSIVE FitFrom(_, _)
FitFrom(inodes, size) ==
    IF inodes = <<>> THEN TRUE
    ELSE IF size + InodeSize(Head(inodes)) >= PageSize THEN FALSE
    ELSE FitFrom(Tail(inodes), size + InodeSize(Head(inodes)))

fit_page_size(n) == FitFrom(n.inodes, PAGE_HEADER_SIZE)

\* Node::break_up: [res, n, new]. With MIN_KEY inodes or fewer it returns
\* None. Otherwise it calls fit_page_size, which borrows self.inodes while
\* the RefMut taken in the first line of break_up is alive: the RefCell
\* panics before split_index is reached
break_up(n) ==
    [res |-> IF Len(n.inodes) <= MIN_KEY THEN "None" ELSE "Panic",
     n |-> n, new |-> NoNode]

\* Node::split of a node without parent: [res, children], the children of
\* the parent it returns. nodes starts as [self]; the loop pushes node, which
\* is self again, before it looks at what break_up returned
split(n) ==
    IF break_up(n).res = "Panic" THEN [res |-> "Panic", children |-> <<>>]
    ELSE [res |-> "Some", children |-> <<n, break_up(n).n>>]

\* a leaf node with the keys 1..Len(vs) and the values vs
NodeOf(vs) ==
    [NodeNew EXCEPT !.inodes = [i \in 1..Len(vs) |-> [key |-> i, value |-> vs[i], flags |-> 0]]]

InitSplit ==
    /\ file = init_file
    /\ dbOpen = TRUE
    /\ has_write = TRUE
    /\ free_list = FreeListNew
    /\ \E len \in 0..MaxInodes : \E vs \in [1..len -> Vals] :
          tx = [TxEmpty EXCEPT
                   ![1] = [TransactionNew(IdbMeta(init_file).meta, TRUE,
                                           FreeListNew, init_file)
                              EXCEPT !.b.root = NodeOf(vs)]]
    /\ alive = {1}
    /\ nTx = 1
    /\ nFault = 0
    /\ ret = Ret("init", 0, "Ok")

\* Node::break_up on the root node of handle h; the new sibling, if any, is
\* kept as the root node of handle h + 1
BreakUp(h) ==
    /\ h \in alive
    /\ tx' = [tx EXCEPT ![h].b.root = break_up(tx[h].b.root).n,
                        ![h + 1].b.root = break_up(tx[h].b.root).new]
    /\ ret' = Ret("break_up", h, break_up(tx[h].b.root).res)
    /\ UNCHANGED <<file, dbOpen, has_write, free_list, alive, nTx, nFault>>

\* Node::split on the root node of handle h; ret.h holds the number of
\* children of the parent it returns
Split(h) ==
    /\ h \in alive
    /\ tx' = [tx EXCEPT ![h].b.root = break_up(tx[h].b.root).n]
    /\ ret' = Ret("split", Len(split(tx[h].b.root).children), split(tx[h].b.root).res)
    /\ UNCHANGED <<file, dbOpen, has_write, free_list, alive, nTx, nFault>>

NextSplit ==
    \/ \E h \in Handles : BreakUp(h)
    \/ \E h \in Handles : Split(h)

\* break_up and split called on a leaf node
SpecSplit == InitSplit /\ [][NextSplit]_vars

\* the bytes of the first i inodes of n, after the page header
RECURSIVE SizeUpTo(_, _)
SizeUpTo(n, i) ==
    IF i = 0 THEN PAGE_HEADER_SIZE ELSE SizeUpTo(n, i - 1) + InodeSize(n.inodes[i])

\* the threshold of a split: page_size * fill_percent, with the default
\* fill_percent of a half
Threshold == PageSize \div 2

\* C37: when a node with more than MIN_KEY inodes that does not fit a page
\* is split, break_up returns a new sibling; the split index is the smallest
\* index >= MIN_KEY at which adding the next inode would exceed the
\* threshold; the fragment that stays and the fragment that is moved hold at
\* least MIN_KEY inodes each, and concatenated in order they are the
\* original inode list
C37_SplitIndex ==
    [][(/\ Len(tx[1].b.root.inodes) > MIN_KEY
        /\ ~fit_page_size(tx[1].b.root)
        /\ BreakUp(1)) =>
           /\ ret'.res = "Some"
           /\ tx'[1].b.root.inodes \o tx'[2].b.root.inodes = tx[1].b.root.inodes
           /\ Len(tx'[1].b.root.inodes) >= MIN_KEY
           /\ Len(tx'[2].b.root.inodes) >= MIN_KEY
           /\ \A i \in MIN_KEY..(Len(tx'[1].b.root.inodes) - 1) :
                 SizeUpTo(tx[1].b.root, i) + InodeSize(tx[1].b.root.inodes[i + 1])
                    <= Threshold]_vars

\* the places of node n among the children cs
PlacesOf(cs, n) == {i \in 1..Len(cs) : cs[i] = n}

\* C38: Node::split ends for every node and returns a parent; every new
\* sibling holds a non-empty, strictly smaller part of the inodes, and the
\* parent's child list holds the original node and every new sibling exactly
\* once
C38_SplitEnds ==
    [][Split(1) =>
          /\ ret'.res = "Some"
          /\ Cardinality(PlacesOf(split(tx[1].b.root).children, tx'[1].b.root)) = 1
          /\ \A i \in 1..ret'.h :
                /\ Cardinality(PlacesOf(split(tx[1].b.root).children,
                                        split(tx[1].b.root).children[i])) = 1
                /\ i > 1 => /\ split(tx[1].b.root).children[i].inodes # <<>>
                            /\ Len(split(tx[1].b.root).children[i].inodes)
                                  < Len(tx[1].b.root.inodes)]_vars

\* C39: the commit of writer t, run to its end, releases the old free-list
\* page into pending[t.tx_id] (under the transaction's id, not a page id),
\* allocates a new page, serializes the sorted union of the free and the
\* pending ids into it and publishes it as the meta's free-list page; the
\* new free-list page is not in the list it stores
C39_FreeListPage ==
    [][\A h \in Handles :
          (/\ h \in alive /\ tx[h].writable
           /\ ReachesWrites(tx[h], file, free_list)
           /\ Commit(h, OkOutcome)) =>
              /\ ret'.res = "Ok"
              /\ tx[h].meta.free_list
                    \in SeqRange(PendingGet(free_list', tx[h].meta.tx_id))
              /\ \A k \in DOMAIN free_list'.pending :
                    k # tx[h].meta.tx_id => PendingGet(free_list', k) = PendingGet(free_list, k)
              /\ IdbMeta(file').meta.free_list = Allocated(tx[h], file, free_list)
              /\ file'[Allocated(tx[h], file, free_list)].page_type = FREE_LIST_PAGE
              /\ file'[Allocated(tx[h], file, free_list)].list = page_ids(free_list')
              /\ Allocated(tx[h], file, free_list)
                    \notin SeqRange(file'[Allocated(tx[h], file, free_list)].list)]_vars

-----------------------------------------------------------------------------
(* Growth beyond the file (transaction.rs, db.rs): commits that allocate
   past the pages the file was created with. The store is not reopened, so
   the mapping is the one Idb::open made: the first MaxPages pages *)

\* the file after a write at page id: File::write_at past the end extends
\* the file, the pages in between read as zeroes
Extended(f, id) ==
    [i \in (DOMAIN f) \cup (0..id) |-> IF i \in DOMAIN f THEN f[i] ELSE ZeroPage]

\* a commit of t on file f whose new page may lie past the end of the file;
\* a commit that does not get to write_pages leaves the file as it is
CommitPastEnd(t, f, fl) ==
    IF ReachesWrites(t, f, fl)
    THEN TxCommit(t, Extended(f, t.meta.num_pages), fl, OkOutcome)
    ELSE TxCommit(t, f, fl, OkOutcome)

\* ITransaction::commit of the writer h, every write succeeding, as long as
\* the free-list page it reads through db.page lies inside the mapping;
\* allocate calls neither resize_mmap nor anything else that widens the
\* file or the mapping
CommitGrow(h) ==
    /\ dbOpen /\ h \in alive /\ tx[h].writable
    /\ tx[h].meta.free_list \in PageIds
    /\ tx[h].meta.num_pages <= MaxPages
    /\ CommitDone(h, OkOutcome, "commit", CommitPastEnd(tx[h], file, free_list))
    /\ UNCHANGED nFault

NextGrow ==
    \/ \E w \in BOOLEAN : DBtx(w)
    \/ \E h \in Handles, k \in 0..MaxKey, v \in Vals : Put(h, k, v)
    \/ \E h \in Handles, k \in Keys : Get(h, k)
    \/ \E h \in Handles : CommitGrow(h)
    \/ \E h \in Handles : Drop(h, OkOutcome)

\* transactions that commit until num_pages passes the end of the file
SpecGrow == Init /\ [][NextGrow]_vars

\* C40: after every commit every page id below the published num_pages lies
\* inside the file and inside the mapping that page(id) reads from: the file
\* is widened and the mapping replaced before num_pages passes them
C40_PagesMapped ==
    IdbMeta(file).ok = "ok" =>
        \A p \in 0..(IdbMeta(file).meta.num_pages - 1) :
            p \in DOMAIN file /\ p \in PageIds

====
